---------------------------- MODULE Spec2Model ----------------------------
(***************************************************************************)
(* A model of the catalog parser: the price normaliser                     *)
(* (utils/price_utils.py), the column mapper (utils/column_mapper.py) and  *)
(* the row transformer (parsers/base_parser.py and the concrete parsers).  *)
(*                                                                         *)
(* Python strings are TLA+ strings; a character is a string of length 1.   *)
(* Python values are records tagged with their type in the field "kind".   *)
(***************************************************************************)
EXTENDS Integers, Sequences, FiniteSets, TLC

(***************************************************************************)
(* Python values.                                                          *)
(***************************************************************************)
None == [kind |-> "None"]
Str(s) == [kind |-> "str", s |-> s]
\* An int, by its decimal digits (Python ints are unbounded).
PyInt(digits) == [kind |-> "int", digits |-> digits]
\* A float, by the decimal digits before and after the point, canonical:
\* no leading zeros before the point (but "0" for zero), no trailing zeros after it.
PyFloat(ip, fp) == [kind |-> "float", ip |-> ip, fp |-> fp]
\* An object of any other type (a list, a date, ...).
Object == [kind |-> "object"]
\* An exception leaving the call.
Raise(exc) == [kind |-> "raise", exc |-> exc]
PyList(rows) == [kind |-> "list", rows |-> rows]

(***************************************************************************)
(* Strings.                                                                *)
(***************************************************************************)
\* The pound sign and the euro sign of the source are written with one
\* character each that no header or cell of the model uses for itself, so
\* that every string of the model is ASCII.
PoundSign == "~"
EuroSign == "="
Char(s, i) == SubSeq(s, i, i)
Digits == {"0", "1", "2", "3", "4", "5", "6", "7", "8", "9"}
Whitespace == {" "}

\* str.strip()
RECURSIVE LStrip(_)
LStrip(s) == IF s # "" /\ Head(s) \in Whitespace THEN LStrip(Tail(s)) ELSE s
RECURSIVE RStrip(_)
RStrip(s) ==
    IF s # "" /\ Char(s, Len(s)) \in Whitespace
    THEN RStrip(SubSeq(s, 1, Len(s) - 1)) ELSE s
Strip(s) == RStrip(LStrip(s))

\* str.replace(old, new) for a one-character old; the text is halved so
\* that a long text is not a deep recursion
RECURSIVE Replace(_, _, _)
Replace(s, old, new) ==
    IF Len(s) <= 1 THEN (IF s = old THEN new ELSE s)
    ELSE LET half == Len(s) \div 2
         IN  Replace(SubSeq(s, 1, half), old, new)
             \o Replace(SubSeq(s, half + 1, Len(s)), old, new)

\* c in s, for a one-character c
HasChar(s, c) == \E i \in 1..Len(s) : Char(s, i) = c

\* s.rindex(c), 1-based; only used where c occurs in s
RIndex(s, c) == CHOOSE i \in 1..Len(s) :
    /\ Char(s, i) = c
    /\ \A j \in (i + 1)..Len(s) : Char(s, j) # c

\* s.split(c)[-1]: what follows the last c
LastSegment(s, c) == IF HasChar(s, c) THEN SubSeq(s, RIndex(s, c) + 1, Len(s)) ELSE s

\* re.sub(r'[^\d\.,]', '', s)
RECURSIVE KeepPriceChars(_)
KeepPriceChars(s) ==
    IF Len(s) <= 1 THEN (IF s \in Digits \cup {".", ","} THEN s ELSE "")
    ELSE LET half == Len(s) \div 2
         IN  KeepPriceChars(SubSeq(s, 1, half))
             \o KeepPriceChars(SubSeq(s, half + 1, Len(s)))

RECURSIVE StripLeadingZeros(_)
StripLeadingZeros(s) ==
    IF Len(s) > 1 /\ Head(s) = "0" THEN StripLeadingZeros(Tail(s)) ELSE s
RECURSIVE StripTrailingZeros(_)
StripTrailingZeros(s) ==
    IF s # "" /\ Char(s, Len(s)) = "0"
    THEN StripTrailingZeros(SubSeq(s, 1, Len(s) - 1)) ELSE s

\* str.lower(), for the letters of the model's texts
UpperLetters == "ABCDEFGHIJKLMNOPQRSTUVWXYZ"
LowerLetters == "abcdefghijklmnopqrstuvwxyz"
UpperToLower ==
    ("A" :> "a") @@ ("B" :> "b") @@ ("C" :> "c") @@ ("D" :> "d") @@ ("E" :> "e")
    @@ ("F" :> "f") @@ ("G" :> "g") @@ ("H" :> "h") @@ ("I" :> "i") @@ ("J" :> "j")
    @@ ("K" :> "k") @@ ("L" :> "l") @@ ("M" :> "m") @@ ("N" :> "n") @@ ("O" :> "o")
    @@ ("P" :> "p") @@ ("Q" :> "q") @@ ("R" :> "r") @@ ("S" :> "s") @@ ("T" :> "t")
    @@ ("U" :> "u") @@ ("V" :> "v") @@ ("W" :> "w") @@ ("X" :> "x") @@ ("Y" :> "y")
    @@ ("Z" :> "z")
LowerChar(c) == IF c \in DOMAIN UpperToLower THEN UpperToLower[c] ELSE c
RECURSIVE Lower(_)
\* every character lowered; the text is halved so that a long text is not
\* a deep recursion
Lower(s) ==
    IF Len(s) <= 1 THEN LowerChar(s)
    ELSE LET half == Len(s) \div 2
         IN  Lower(SubSeq(s, 1, half)) \o Lower(SubSeq(s, half + 1, Len(s)))

\* sub in s
Contains(s, sub) ==
    \E i \in 1..(Len(s) - Len(sub) + 1) : SubSeq(s, i, i + Len(sub) - 1) = sub

\* s.split(): the words of s
RECURSIVE SplitWords(_, _)
SplitWords(s, word) ==
    IF s = "" THEN (IF word = "" THEN <<>> ELSE <<word>>)
    ELSE IF Head(s) \in Whitespace
         THEN (IF word = "" THEN <<>> ELSE <<word>>) \o SplitWords(Tail(s), "")
         ELSE SplitWords(Tail(s), word \o Head(s))
Split(s) == SplitWords(s, "")

\* re.sub(r'\s+', ' ', s)
RECURSIVE CollapseSpaces(_)
CollapseSpaces(s) ==
    IF s = "" THEN ""
    ELSE IF Head(s) \in Whitespace
         THEN " " \o CollapseSpaces(LStrip(s))
         ELSE Head(s) \o CollapseSpaces(Tail(s))

\* The elements of a sequence
Range(seq) == {seq[i] : i \in 1..Len(seq)}

(***************************************************************************)
(* float()                                                                 *)
(***************************************************************************)
\* float(s) for a string of digits and points (all that normalize_price
\* hands to it): a value when s holds at most one point and at least one
\* digit, a ValueError otherwise.
FloatOfStr(s) ==
    LET points == Cardinality({i \in 1..Len(s) : Char(s, i) = "."})
        digits == Cardinality({i \in 1..Len(s) : Char(s, i) \in Digits})
    IN  IF points > 1 \/ digits = 0 THEN Raise("ValueError")
        ELSE IF points = 0 THEN PyFloat(StripLeadingZeros(s), "")
        ELSE LET p == RIndex(s, ".")
                 ip == SubSeq(s, 1, p - 1)
                 fp == SubSeq(s, p + 1, Len(s))
             IN  PyFloat(StripLeadingZeros(IF ip = "" THEN "0" ELSE ip),
                         StripTrailingZeros(fp))

\* float(n) for an int: an int of more than 309 digits is beyond the largest
\* double (1.797...e308) and float() raises OverflowError.
FloatOfInt(digits) ==
    IF Len(StripLeadingZeros(digits)) > 309 THEN Raise("OverflowError")
    ELSE PyFloat(StripLeadingZeros(digits), "")

(***************************************************************************)
(* PriceUtils.normalize_price                                              *)
(***************************************************************************)
\* s.index(c), 1-based; only used where c occurs in s
Index(s, c) == CHOOSE i \in 1..Len(s) :
    /\ Char(s, i) = c
    /\ \A j \in 1..(i - 1) : Char(s, j) # c

\* ResolveSeparators comparing the first occurrences of the separators
\* where the code compares the last ones.
ResolveSeparators_FirstOccurrence(cleaned) ==
    IF HasChar(cleaned, ",") /\ HasChar(cleaned, ".")
    THEN IF Index(cleaned, ",") > Index(cleaned, ".")
         THEN Replace(Replace(cleaned, ".", ""), ",", ".")
         ELSE Replace(cleaned, ",", "")
    ELSE IF HasChar(cleaned, ",")
    THEN IF Len(LastSegment(cleaned, ",")) \in {0, 1, 2, 3}
         THEN Replace(cleaned, ",", ".")
         ELSE Replace(cleaned, ",", "")
    ELSE cleaned

\* ResolveSeparators reading a comma followed by three digits as a
\* thousand separator.
ResolveSeparators_ThreeDigitsThousands(cleaned) ==
    IF HasChar(cleaned, ",") /\ HasChar(cleaned, ".")
    THEN IF RIndex(cleaned, ",") > RIndex(cleaned, ".")
         THEN Replace(Replace(cleaned, ".", ""), ",", ".")
         ELSE Replace(cleaned, ",", "")
    ELSE IF HasChar(cleaned, ",")
    THEN IF Len(LastSegment(cleaned, ",")) \in {0, 1, 2}
         THEN Replace(cleaned, ",", ".")
         ELSE Replace(cleaned, ",", "")
    ELSE cleaned

\* The text handed to float(): the separators of the cleaned text resolved.
ResolveSeparators(cleaned) ==
    IF HasChar(cleaned, ",") /\ HasChar(cleaned, ".")
    THEN IF RIndex(cleaned, ",") > RIndex(cleaned, ".")
         THEN Replace(Replace(cleaned, ".", ""), ",", ".")    \* like 1.234,56
         ELSE Replace(cleaned, ",", "")                       \* like 1,234.56
    ELSE IF HasChar(cleaned, ",")
    THEN IF Len(LastSegment(cleaned, ",")) \in {0, 1, 2, 3}
         THEN Replace(cleaned, ",", ".")                      \* decimal separator
         ELSE Replace(cleaned, ",", "")                       \* thousand separator
    ELSE cleaned

normalize_price(v) ==
    IF v = None THEN None
    ELSE IF v.kind = "int" THEN FloatOfInt(v.digits)
    ELSE IF v.kind = "float" THEN v
    ELSE IF v.kind = "bool" THEN PyFloat(IF v.b THEN "1" ELSE "0", "")  \* a bool is an int
    ELSE IF v.kind = "str" THEN
        LET cleaned == KeepPriceChars(Strip(v.s))
        IN  IF cleaned = "" THEN None
            ELSE LET parsed == FloatOfStr(ResolveSeparators(cleaned))
                 IN  IF parsed.kind = "raise" /\ parsed.exc = "ValueError"
                     THEN None     \* except ValueError
                     ELSE parsed
    ELSE None

(***************************************************************************)
(* Confidence scores are exact rationals <<numerator, denominator>>.       *)
(***************************************************************************)
RatLT(a, b) == a[1] * b[2] < b[1] * a[2]
RatLE(a, b) == a[1] * b[2] <= b[1] * a[2]
RatAdd(a, b) == <<a[1] * b[2] + b[1] * a[2], a[2] * b[2]>>
RatMax(a, b) == IF RatLT(a, b) THEN b ELSE a
RatMin(a, b) == IF RatLT(b, a) THEN b ELSE a
Hundredths(n) == <<n, 100>>
RatZero == <<0, 1>>
RatOne == <<1, 1>>

(***************************************************************************)
(* Configuration: config/target_fields.py, config/settings.py              *)
(***************************************************************************)
TARGET_FIELDS ==
    << "SKU", "Short Description", "Long Description", "Model",
       "Category Group", "Category", "Manufacturer", "Manufacturer SKU",
       "Image URL", "Document Name", "Document URL", "Unit Of Measure",
       "Buy Cost", "Trade Price", "MSRP GBP", "MSRP USD", "MSRP EUR",
       "Discontinued" >>

PRICE_FIELDS == <<"Buy Cost", "Trade Price", "MSRP GBP", "MSRP USD", "MSRP EUR">>

REQUIRED_FIELDS == <<"SKU", "Short Description", "Manufacturer">>

CONFIDENCE_THRESHOLD == Hundredths(70)

(***************************************************************************)
(* Configuration tables that column_mapper.py and price_utils.py import    *)
(* from config.field_mappings, which does not define them: modelled from   *)
(* the specification's description of each table.                          *)
(***************************************************************************)
\* Currency -> indicators (symbol, ISO code, currency word, adjective), in
\* the table's order.  CAD stands for a currency that has no target field.
CURRENCY_CODES == <<"GBP", "USD", "EUR", "CAD">>
CURRENCY_INDICATORS ==
    [c \in Range(CURRENCY_CODES) |->
        CASE c = "GBP" -> <<PoundSign, "GBP", "pound", "british">>
          [] c = "USD" -> <<"$", "USD", "dollar", "american">>
          [] c = "EUR" -> <<EuroSign, "EUR", "euro", "european">>
          [] c = "CAD" -> <<"CAD", "canadian">>]

\* The currency-agnostic retail/list/MSRP patterns: each a literal phrase
\* that re.search looks for in the cleaned header.
GENERIC_MSRP_PATTERNS ==
    <<"msrp", "rrp", "srp", "list price", "retail price", "retail">>

\* Field -> the fields often found in the columns next to it.
FIELD_RELATIONSHIP_KEYS == <<"MSRP", "SKU">>
FIELD_RELATIONSHIPS ==
    [f \in Range(FIELD_RELATIONSHIP_KEYS) |->
        CASE f = "MSRP" -> <<"Buy Cost", "Trade Price">>
          [] f = "SKU" -> <<"Manufacturer SKU">>]

\* Keyword -> synonyms.
HEADER_SYNONYMS ==
    [k \in {"price"} |-> <<"cost", "rate", "amount">>]

(***************************************************************************)
(* config/field_mappings.py: FIELD_PATTERNS of the target fields.          *)
(*                                                                         *)
(* Every pattern is (?i)^(...)$ and is applied to a cleaned header, which  *)
(* is lower-case and has no white space but single blanks between words.   *)
(* A pattern is written as the set of cleaned headers it matches in full:  *)
(* a literal is a one-string set, alternation is union, concatenation is   *)
(* Cat, x? is Opt(x) and \s* is Ws.                                        *)
(***************************************************************************)
RECURSIVE Cat(_)
Cat(parts) ==
    IF parts = <<>> THEN {""}
    ELSE {x \o y : x \in Head(parts), y \in Cat(Tail(parts))}
Opt(part) == part \cup {""}
\* \s* between two words of a cleaned header: nothing or one blank
Ws == {"", " "}
\* (?<!...) directly after ^ and (?!...) directly before $ consume nothing
\* and cannot fail: nothing precedes the start and nothing follows the end
Lookaround == {""}

PATTERNS_SKU ==
    << ({"sku"}
        \cup Cat(<<{"item"}, Ws, ({"code", "number", "#", "no"})>>)
        \cup Cat(<<{"product"}, Ws, ({"code", "number", "#", "no"})>>)
        \cup Cat(<<{"part"}, Ws, ({"code", "number", "#", "no"})>>)
        \cup Cat(<<{"stock"}, Ws, ({"code", "number"})>>)),
       (Cat(<<{"article"}, Ws, ({"number", "code", "#", "no"})>>)
        \cup Cat(<<{"catalog"}, Ws, ({"number", "code", "#", "no"})>>)
        \cup Cat(<<{"reference"}, Ws, ({"number", "code"})>>)),
       (Cat(<<{"inventory"}, Ws, ({"number", "code", "id"})>>)
        \cup {"reference"}
        \cup Cat(<<{"model"}, Ws, {"number"}>>)
        \cup Cat(<<{"part"}, Ws, {"id"}>>)),
       ({"mpn"}
        \cup Cat(<<{"mfr"}, Ws, {"#"}>>)
        \cup {"ean", "upc", "gtin", "isbn"}),
       (({"product", "item", "part"})) >>

PATTERNS_Short_Description ==
    << (Cat(<<{"short"}, Ws, {"desc"}, Opt({"ription"})>>)
        \cup Cat(<<{"brief"}, Ws, {"desc"}, Opt({"ription"})>>)
        \cup {"title"}
        \cup Cat(<<{"product"}, Ws, {"name"}>>)
        \cup Cat(<<{"item"}, Ws, {"name"}>>)
        \cup {"name"}
        \cup Cat(<<{"description"}, Ws, {"(short)"}>>)),
       (Cat(<<{"product"}, Ws, {"title"}>>)
        \cup Cat(<<{"item"}, Ws, {"title"}>>)
        \cup Cat(<<{"short"}, Ws, {"title"}>>)
        \cup Cat(<<{"short"}, Ws, {"text"}>>)
        \cup {"headline", "caption", "summary"}),
       ({"label"}
        \cup Cat(<<{"display"}, Ws, {"name"}>>)
        \cup Cat(<<{"listing"}, Ws, {"title"}>>)
        \cup Cat(<<{"short"}, Ws, {"name"}>>)
        \cup Cat(<<{"brief"}, Ws, {"name"}>>)),
       (Cat(<<Lookaround, Lookaround, Lookaround, {"description"}, Lookaround>>)) >>

PATTERNS_Long_Description ==
    << (Cat(<<{"long"}, Ws, {"desc"}, Opt({"ription"})>>)
        \cup Cat(<<{"detailed"}, Ws, {"desc"}, Opt({"ription"})>>)
        \cup Cat(<<{"full"}, Ws, {"desc"}, Opt({"ription"})>>)
        \cup Cat(<<{"product"}, Ws, {"desc"}, Opt({"ription"})>>)
        \cup Cat(<<{"item"}, Ws, {"desc"}, Opt({"ription"})>>)),
       (Cat(<<{"description"}, Ws, ({"long", "full", "detailed"})>>)
        \cup Cat(<<{"full"}, Ws, {"description"}>>)
        \cup Cat(<<{"extended"}, Ws, {"description"}>>)
        \cup Cat(<<{"complete"}, Ws, {"description"}>>)),
       ({"features", "specifications"}
        \cup Cat(<<{"spec"}, Opt({"s"})>>)
        \cup Cat(<<{"product"}, Ws, {"details"}>>)
        \cup Cat(<<{"item"}, Ws, {"details"}>>)
        \cup Cat(<<{"product"}, Ws, {"information"}>>)
        \cup Cat(<<{"technical"}, Ws, {"details"}>>)),
       (Cat(<<{"tech"}, Ws, {"specs"}>>)
        \cup Cat(<<{"technical"}, Ws, {"description"}>>)
        \cup Cat(<<{"full"}, Ws, {"text"}>>)
        \cup Cat(<<{"product"}, Ws, {"specs"}>>)
        \cup Cat(<<{"feature"}, Ws, {"list"}>>)
        \cup Cat(<<{"specification"}, Opt({"s"})>>)),
       (Cat(<<{"product"}, Ws, {"overview"}>>)
        \cup Cat(<<{"detailed"}, Ws, {"information"}>>)
        \cup {"details"}
        \cup Cat(<<{"product"}, Ws, {"features"}>>)
        \cup Cat(<<{"comprehensive"}, Ws, {"description"}>>)) >>

PATTERNS_Model ==
    << (Cat(<<{"model"}, ({""} \cup Cat(<<Ws, ({"code", "number", "#", "no"})>>) \cup Cat(<<Ws, {"name"}>>) \cup Cat(<<Ws, {"id"}>>))>>)),
       ({"version"}
        \cup Cat(<<{"product"}, Ws, {"model"}>>)
        \cup Cat(<<{"device"}, Ws, {"model"}>>)
        \cup Cat(<<{"model"}, Ws, {"identifier"}>>)
        \cup Cat(<<{"model"}, Ws, {"designation"}>>)),
       ({"variant"}
        \cup Cat(<<{"style"}, Ws, {"number"}>>)
        \cup Cat(<<{"style"}, Ws, {"code"}>>)
        \cup Cat(<<{"design"}, Ws, {"number"}>>)
        \cup Cat(<<{"type"}, Ws, {"number"}>>)) >>

PATTERNS_Category_Group ==
    << (Cat(<<{"category"}, Ws, {"group"}>>)
        \cup Cat(<<{"main"}, Ws, {"category"}>>)
        \cup Cat(<<{"top"}, Ws, {"category"}>>)
        \cup Cat(<<{"product"}, Ws, {"group"}>>)
        \cup {"dept", "department", "division"}),
       (Cat(<<{"product"}, Ws, {"line"}>>)
        \cup Cat(<<{"major"}, Ws, {"category"}>>)
        \cup Cat(<<{"product"}, Ws, {"class"}>>)
        \cup Cat(<<{"primary"}, Ws, {"category"}>>)
        \cup Cat(<<{"category"}, Ws, {"level"}, Ws, {"1"}>>)),
       (Cat(<<{"top"}, Ws, {"level"}, Ws, {"category"}>>)
        \cup Cat(<<{"parent"}, Ws, {"category"}>>)
        \cup Cat(<<{"category"}, Ws, {"parent"}>>)
        \cup Cat(<<{"main"}, Ws, {"group"}>>)
        \cup Cat(<<{"product"}, Ws, {"area"}>>)),
       (Cat(<<{"group"}, Lookaround>>)) >>

PATTERNS_Category ==
    << (Cat(<<{"category"}, Lookaround>>)
        \cup Cat(<<{"sub"}, Ws, {"category"}>>)
        \cup Cat(<<{"product"}, Ws, {"category"}>>)
        \cup Cat(<<{"product"}, Ws, {"type"}>>)
        \cup Cat(<<{"sub"}, Ws, {"group"}>>)
        \cup {"family"}),
       ({"class", "classification", "segment"}
        \cup Cat(<<{"product"}, Ws, {"segment"}>>)
        \cup {"section"}
        \cup Cat(<<{"category"}, Ws, {"level"}, Ws, {"2"}>>)),
       ({"subcategory"}
        \cup Cat(<<{"sub"}, Ws, {"classification"}>>)
        \cup Cat(<<{"product"}, Ws, {"family"}>>)
        \cup Cat(<<{"product"}, Ws, {"subdivision"}>>)
        \cup Cat(<<{"product"}, Ws, {"class"}>>)),
       ({"type", "level", "tier", "grouping"}
        \cup Cat(<<{"product"}, Ws, {"sector"}>>)) >>

PATTERNS_Manufacturer ==
    << ({"manufacturer", "brand", "maker", "vendor", "supplier", "producer"}
        \cup {"company"}),
       ({"oem"}
        \cup Cat(<<{"original"}, Ws, {"manufacturer"}>>)
        \cup {"provider", "source", "origin"}
        \cup Cat(<<{"brand"}, Ws, {"name"}>>)),
       (Cat(<<{"made"}, Ws, {"by"}>>)
        \cup Cat(<<{"manufactured"}, Ws, {"by"}>>)
        \cup Cat(<<{"created"}, Ws, {"by"}>>)
        \cup Cat(<<{"built"}, Ws, {"by"}>>)
        \cup {"developer"}) >>

PATTERNS_Manufacturer_SKU ==
    << (Cat(<<{"mfr"}, Ws, ({"part", "#", "number", "code", "sku"})>>)
        \cup Cat(<<{"manufacturer"}, Ws, ({"part", "#", "number", "code", "sku"})>>)
        \cup Cat(<<{"vendor"}, Ws, ({"part", "#", "number", "code", "sku"})>>)
        \cup Cat(<<{"oem"}, Ws, ({"part", "#", "number", "code"})>>)),
       (Cat(<<{"brand"}, Ws, ({"sku", "number", "code"})>>)
        \cup Cat(<<{"maker"}, Ws, ({"part", "#", "number", "code"})>>)
        \cup Cat(<<{"external"}, Ws, ({"sku", "id"})>>)),
       (Cat(<<{"supplier"}, Ws, ({"code", "number", "id", "reference"})>>)
        \cup Cat(<<{"factory"}, Ws, ({"code", "number", "id", "reference"})>>)
        \cup Cat(<<{"original"}, Ws, ({"code", "number"})>>)),
       (Cat(<<{"manufacturer"}, Ws, {"reference"}>>)
        \cup Cat(<<{"oem"}, Ws, {"ref"}>>)
        \cup Cat(<<{"vendor"}, Ws, {"reference"}>>)
        \cup Cat(<<{"producer"}, Ws, {"code"}>>)
        \cup {"mpn"}) >>

PATTERNS_Image_URL ==
    << (Cat(<<{"image"}, Ws, ({"url", "link", "path", "src", "source"})>>)
        \cup Cat(<<{"photo"}, Ws, ({"url", "link", "path", "src", "source"})>>)
        \cup Cat(<<{"picture"}, Ws, ({"url", "link", "path", "src", "source"})>>)),
       (Cat(<<{"img"}, Ws, ({"url", "link", "path", "src", "source"})>>)
        \cup Cat(<<{"product"}, Ws, ({"image", "photo", "picture"}), Ws, Opt(({"url", "link", "path"}))>>)),
       ({"image", "photo", "picture", "img", "thumbnail"}
        \cup Cat(<<{"main"}, Ws, {"image"}>>)
        \cup Cat(<<{"product"}, Ws, {"image"}>>)
        \cup Cat(<<{"primary"}, Ws, {"image"}>>)),
       (Cat(<<{"image"}, Ws, {"location"}>>)
        \cup Cat(<<{"photo"}, Ws, {"location"}>>)
        \cup Cat(<<{"image"}, Ws, {"address"}>>)
        \cup Cat(<<{"main"}, Ws, {"photo"}>>)
        \cup {"gallery"}
        \cup Cat(<<{"image"}, Ws, {"file"}>>)) >>

PATTERNS_Document_Name ==
    << (Cat(<<{"document"}, Ws, {"name"}>>)
        \cup Cat(<<{"doc"}, Ws, {"name"}>>)
        \cup Cat(<<{"file"}, Ws, {"name"}>>)
        \cup Cat(<<{"manual"}, Ws, {"name"}>>)
        \cup Cat(<<{"spec"}, Ws, {"sheet"}, Ws, {"name"}>>)
        \cup Cat(<<{"document"}, Ws, {"title"}>>)),
       (Cat(<<{"pdf"}, Ws, {"name"}>>)
        \cup Cat(<<{"attachment"}, Ws, {"name"}>>)
        \cup Cat(<<{"documentation"}, Ws, {"name"}>>)
        \cup {"document"}
        \cup Cat(<<{"manual"}, Ws, {"title"}>>)
        \cup Cat(<<{"guide"}, Ws, {"name"}>>)),
       (Cat(<<{"technical"}, Ws, {"document"}, Ws, {"name"}>>)
        \cup Cat(<<{"spec"}, Ws, {"name"}>>)
        \cup Cat(<<{"whitepaper"}, Ws, {"name"}>>)
        \cup Cat(<<{"brochure"}, Ws, {"name"}>>)) >>

PATTERNS_Document_URL ==
    << (Cat(<<{"document"}, Ws, ({"url", "link", "path"})>>)
        \cup Cat(<<{"doc"}, Ws, ({"url", "link", "path"})>>)
        \cup Cat(<<{"manual"}, Ws, ({"url", "link", "path"})>>)
        \cup Cat(<<{"spec"}, Ws, ({"url", "link", "path"})>>)
        \cup Cat(<<{"pdf"}, Ws, ({"url", "link", "path"})>>)),
       (Cat(<<{"documentation"}, Ws, ({"url", "link"})>>)
        \cup Cat(<<{"attachment"}, Ws, ({"url", "link"})>>)
        \cup Cat(<<{"data"}, Ws, {"sheet"}, Ws, ({"url", "link"})>>)
        \cup Cat(<<{"document"}, Ws, {"url"}>>)),
       (Cat(<<{"technical"}, Ws, ({"doc", "document", "manual"}), Ws, ({"url", "link"})>>)
        \cup Cat(<<{"guide"}, Ws, ({"url", "link"})>>)
        \cup Cat(<<{"instruction"}, Ws, ({"url", "link"})>>)),
       (Cat(<<{"brochure"}, Ws, ({"url", "link"})>>)
        \cup Cat(<<{"whitepaper"}, Ws, ({"url", "link"})>>)
        \cup Cat(<<{"catalog"}, Ws, ({"url", "link"})>>)
        \cup Cat(<<{"literature"}, Ws, ({"url", "link"})>>)) >>

PATTERNS_Unit_Of_Measure ==
    << ({"uom"}
        \cup Cat(<<{"unit"}, Ws, (Cat(<<{"of"}, Ws, {"measure"}>>) \cup {"measure", "type"})>>)
        \cup Cat(<<{"sell"}, Ws, {"unit"}>>)
        \cup {"packaging"}
        \cup Cat(<<{"pack"}, Ws, {"size"}>>)
        \cup Cat(<<{"quantity"}, Ws, {"unit"}>>)),
       (Cat(<<{"measurement"}, Ws, {"unit"}>>)
        \cup Cat(<<{"sales"}, Ws, {"unit"}>>)
        \cup Cat(<<{"unit"}, Ws, {"size"}>>)
        \cup Cat(<<{"package"}, Ws, {"type"}>>)
        \cup Cat(<<{"qty"}, Ws, {"unit"}>>)
        \cup Cat(<<{"order"}, Ws, {"unit"}>>)),
       ({"unit"}
        \cup Cat(<<{"quantity"}, Ws, {"type"}>>)
        \cup Cat(<<{"base"}, Ws, {"unit"}>>)
        \cup Cat(<<{"stock"}, Ws, {"unit"}>>)
        \cup Cat(<<{"inventory"}, Ws, {"unit"}>>)
        \cup Cat(<<{"sales"}, Ws, {"unit"}, Ws, {"of"}, Ws, {"measure"}>>)),
       ({"each", "package", "piece", "set", "case", "bottle", "box"}
        \cup {"pallet", "container"}) >>

PATTERNS_Buy_Cost ==
    << (Cat(<<({"buy", "cost", "wholesale", "net", "dealer", "base"}), Ws, ({"cost", "price"})>>)
        \cup Cat(<<({"cost", "price"}), Ws, ({"to", "for"}), Ws, ({"buy", "dealer", "distributor", "reseller"})>>)),
       (Cat(<<{"cost"}, Lookaround>>)
        \cup Cat(<<{"purchase"}, Ws, {"price"}>>)
        \cup Cat(<<{"unit"}, Ws, {"cost"}>>)
        \cup Cat(<<{"dealer"}, Ws, {"cost"}>>)),
       (Cat(<<{"landed"}, Ws, {"cost"}>>)
        \cup Cat(<<{"acquisition"}, Ws, {"cost"}>>)
        \cup Cat(<<{"inventory"}, Ws, {"cost"}>>)
        \cup Cat(<<{"stock"}, Ws, {"cost"}>>)
        \cup Cat(<<{"internal"}, Ws, {"price"}>>)),
       (Cat(<<{"direct"}, Ws, {"cost"}>>)
        \cup Cat(<<{"factory"}, Ws, {"price"}>>)
        \cup Cat(<<{"ex-works"}, Ws, {"price"}>>)
        \cup Cat(<<{"supply"}, Ws, {"price"}>>)
        \cup Cat(<<{"inventory"}, Ws, {"value"}>>)),
       (Cat(<<{"procurement"}, Ws, ({"cost", "price"})>>)
        \cup Cat(<<{"supplier"}, Ws, ({"cost", "price"})>>)
        \cup Cat(<<{"manufacturer"}, Ws, ({"cost", "price"})>>)) >>

PATTERNS_Trade_Price ==
    << (Cat(<<({"trade", "dealer", "distributor", "reseller", "wholesale"}), Ws, ({"cost", "price"})>>)
        \cup Cat(<<{"price"}, Ws, ({"to", "for"}), Ws, ({"trade", "dealer", "distributor", "reseller"})>>)),
       (Cat(<<{"wholesale"}, Ws, {"price"}>>)
        \cup Cat(<<{"b2b"}, Ws, {"price"}>>)
        \cup Cat(<<{"commercial"}, Ws, {"price"}>>)
        \cup Cat(<<{"partner"}, Ws, {"price"}>>)
        \cup Cat(<<{"channel"}, Ws, {"price"}>>)
        \cup Cat(<<{"business"}, Ws, {"price"}>>)),
       (Cat(<<{"net"}, Ws, {"price"}>>)
        \cup Cat(<<{"discount"}, Ws, {"price"}>>)
        \cup Cat(<<{"special"}, Ws, {"price"}>>)
        \cup Cat(<<{"contractor"}, Ws, {"price"}>>)
        \cup Cat(<<{"pro"}, Ws, {"price"}>>)
        \cup Cat(<<{"trade"}, Ws, {"discount"}>>)),
       (Cat(<<{"professional"}, Ws, {"price"}>>)
        \cup Cat(<<{"bulk"}, Ws, {"price"}>>)
        \cup Cat(<<{"volume"}, Ws, {"price"}>>)
        \cup Cat(<<{"non-retail"}, Ws, {"price"}>>)
        \cup Cat(<<{"trade"}, Ws, {"only"}, Ws, {"price"}>>)) >>

PATTERNS_MSRP_GBP ==
    << (Cat(<<({"msrp", "srp", "rrp", "list", "retail", "resale", "recommended", "suggested"}), Ws, ({"price", "cost"}), Ws, ({"(gbp)", "gbp", PoundSign} \cup Cat(<<{"pound"}, Opt({"s"})>>))>>)),
       (Cat(<<({"price", "cost"}), Ws, ({"gbp", PoundSign} \cup Cat(<<{"pound"}, Opt({"s"})>>))>>)
        \cup Cat(<<{"retail"}, Ws, {"gbp"}>>)
        \cup Cat(<<{"retail"}, Ws, {PoundSign}>>)),
       (Cat(<<{"uk"}, Ws, ({"price", "retail", "msrp", "rrp"})>>)
        \cup Cat(<<{"price"}, Ws, {"uk"}>>)
        \cup Cat(<<{"british"}, Ws, {"pound"}, Opt({"s"})>>)),
       ({"gbp", PoundSign}
        \cup Cat(<<{"pound"}, Opt({"s"})>>)
        \cup Cat(<<{"price"}, Ws, {"gbp"}>>)
        \cup {"sterling"}),
       (Cat(<<({"price", "cost"}), Ws, {"in"}, (Cat(<<Ws, {"gbp"}>>) \cup Cat(<<Ws, {"pound"}, Opt({"s"})>>))>>)
        \cup Cat(<<{"uk"}, Ws, {"retail"}, Ws, {"price"}>>)) >>

PATTERNS_MSRP_USD ==
    << (Cat(<<({"msrp", "srp", "rrp", "list", "retail", "resale", "recommended", "suggested"}), Ws, ({"price", "cost"}), Ws, ({"(usd)", "usd", "$"} \cup Cat(<<{"dollar"}, Opt({"s"})>>))>>)),
       (Cat(<<({"price", "cost"}), Ws, ({"usd", "$"} \cup Cat(<<{"dollar"}, Opt({"s"})>>))>>)
        \cup Cat(<<{"retail"}, Ws, {"usd"}>>)
        \cup Cat(<<{"retail"}, Ws, {"$"}>>)),
       (Cat(<<{"us"}, Ws, ({"price", "retail", "msrp", "rrp"})>>)
        \cup Cat(<<{"price"}, Ws, {"us"}>>)
        \cup Cat(<<{"american"}, Ws, {"dollar"}, Opt({"s"})>>)),
       ({"usd", "$"}
        \cup Cat(<<{"dollar"}, Opt({"s"})>>)
        \cup Cat(<<{"price"}, Ws, {"usd"}>>)),
       (Cat(<<({"price", "cost"}), Ws, {"in"}, (Cat(<<Ws, {"usd"}>>) \cup Cat(<<Ws, {"dollar"}, Opt({"s"})>>))>>)
        \cup Cat(<<{"us"}, Ws, {"retail"}, Ws, {"price"}>>)) >>

PATTERNS_MSRP_EUR ==
    << (Cat(<<({"msrp", "srp", "rrp", "list", "retail", "resale", "recommended", "suggested"}), Ws, ({"price", "cost"}), Ws, ({"(eur)", "eur", EuroSign} \cup Cat(<<{"euro"}, Opt({"s"})>>))>>)),
       (Cat(<<({"price", "cost"}), Ws, ({"eur", EuroSign} \cup Cat(<<{"euro"}, Opt({"s"})>>))>>)
        \cup Cat(<<{"retail"}, Ws, {"eur"}>>)
        \cup Cat(<<{"retail"}, Ws, {EuroSign}>>)),
       (Cat(<<{"eu"}, Ws, ({"price", "retail", "msrp", "rrp"})>>)
        \cup Cat(<<{"price"}, Ws, {"eu"}>>)
        \cup Cat(<<{"european"}, Ws, {"euro"}, Opt({"s"})>>)),
       ({"eur", EuroSign}
        \cup Cat(<<{"euro"}, Opt({"s"})>>)
        \cup Cat(<<{"price"}, Ws, {"eur"}>>)),
       (Cat(<<({"price", "cost"}), Ws, {"in"}, (Cat(<<Ws, {"eur"}>>) \cup Cat(<<Ws, {"euro"}, Opt({"s"})>>))>>)
        \cup Cat(<<{"eu"}, Ws, {"retail"}, Ws, {"price"}>>)) >>

PATTERNS_Discontinued ==
    << ({"discontinued", "obsolete", "eol"}
        \cup Cat(<<{"end"}, Ws, {"of"}, Ws, {"life"}>>)
        \cup {"inactive", "status"}
        \cup Cat(<<{"discontinued"}, Ws, {"flag"}>>)),
       (Cat(<<{"discontinued"}, Ws, ({"status", "indicator", "product"})>>)
        \cup Cat(<<{"product"}, Ws, {"status"}>>)
        \cup Cat(<<{"availability"}, Ws, {"status"}>>)),
       ({"availability"}
        \cup Cat(<<{"in"}, Ws, {"stock"}>>)
        \cup {"active"}
        \cup Cat(<<{"out"}, Ws, {"of"}, Ws, {"stock"}>>)
        \cup Cat(<<{"stock"}, Ws, {"status"}>>)
        \cup Cat(<<{"inventory"}, Ws, {"status"}>>)),
       ({"available", "obtainable", "procurable", "purchasable", "orderable"}
        \cup Cat(<<{"in"}, Ws, {"production"}>>)) >>

FIELD_PATTERNS ==
    [f \in Range(TARGET_FIELDS) |->
        CASE f = "SKU" -> PATTERNS_SKU
          [] f = "Short Description" -> PATTERNS_Short_Description
          [] f = "Long Description" -> PATTERNS_Long_Description
          [] f = "Model" -> PATTERNS_Model
          [] f = "Category Group" -> PATTERNS_Category_Group
          [] f = "Category" -> PATTERNS_Category
          [] f = "Manufacturer" -> PATTERNS_Manufacturer
          [] f = "Manufacturer SKU" -> PATTERNS_Manufacturer_SKU
          [] f = "Image URL" -> PATTERNS_Image_URL
          [] f = "Document Name" -> PATTERNS_Document_Name
          [] f = "Document URL" -> PATTERNS_Document_URL
          [] f = "Unit Of Measure" -> PATTERNS_Unit_Of_Measure
          [] f = "Buy Cost" -> PATTERNS_Buy_Cost
          [] f = "Trade Price" -> PATTERNS_Trade_Price
          [] f = "MSRP GBP" -> PATTERNS_MSRP_GBP
          [] f = "MSRP USD" -> PATTERNS_MSRP_USD
          [] f = "MSRP EUR" -> PATTERNS_MSRP_EUR
          [] f = "Discontinued" -> PATTERNS_Discontinued]

\* re.match(pattern, cleaned_header)
ReMatch(pattern, cleaned_header) == cleaned_header \in pattern
\* re.search(pattern, cleaned_header): the pattern is anchored at both ends,
\* so a match anywhere is a match of the whole header
ReSearch(pattern, cleaned_header) == cleaned_header \in pattern

(***************************************************************************)
(* ColumnMapper._clean_header                                              *)
(***************************************************************************)
\* [_\-\.\[\]\(\)\{\}\*\+\?\^\$\|]
SpecialChars == {"_", "-", ".", "[", "]", "(", ")", "{", "}", "*", "+", "?", "^", "$", "|"}
\* \w: letters, digits and the underscore
WordChars ==
    {Char(UpperLetters, i) : i \in 1..Len(UpperLetters)}
    \cup {Char(LowerLetters, i) : i \in 1..Len(LowerLetters)}
    \cup Digits \cup {"_"}
CurrencySymbols == {PoundSign, "$", EuroSign}

RECURSIVE MapChars(_, _, _)
\* every character of s that is in chars (keep = FALSE) or is not in chars
\* (keep = TRUE) replaced by a space
MapChars(s, chars, keep) ==
    IF s = "" THEN ""
    ELSE (IF (Head(s) \in chars) = keep THEN Head(s) ELSE " ")
         \o MapChars(Tail(s), chars, keep)

_clean_header(header) ==
    LET stripped == Strip(header)
        spaced == CollapseSpaces(stripped)
        nospecial == MapChars(spaced, SpecialChars, FALSE)
        wordsonly == MapChars(nospecial, WordChars \cup Whitespace \cup CurrencySymbols, TRUE)
    IN  Strip(Lower(CollapseSpaces(wordsonly)))

(***************************************************************************)
(* ColumnMapper._extract_header_info: the currency of a header             *)
(***************************************************************************)
\* The first currency, in table order, one of whose indicators occurs in the
\* text whatever the case; "" when there is none.
RECURSIVE FirstCurrency(_, _)
FirstCurrency(lowered, k) ==
    IF k > Len(CURRENCY_CODES) THEN ""
    ELSE LET c == CURRENCY_CODES[k]
         IN  IF \E i \in 1..Len(CURRENCY_INDICATORS[c]) :
                    Contains(lowered, Lower(CURRENCY_INDICATORS[c][i]))
             THEN c
             ELSE FirstCurrency(lowered, k + 1)

_extract_header_info(header, cleaned_header) ==
    LET currency == FirstCurrency(Lower(header), 1)
    IN  [original |-> header, cleaned |-> cleaned_header,
         has_currency |-> currency # "", currency |-> currency]

(***************************************************************************)
(* difflib.SequenceMatcher(None, a, b).ratio()                             *)
(***************************************************************************)
RECURSIVE CommonLen(_, _, _, _, _, _)
\* the length of the longest common run of a[i..ahi] and b[j..bhi] from their starts
CommonLen(a, i, ahi, b, j, bhi) ==
    IF i > ahi \/ j > bhi \/ Char(a, i) # Char(b, j) THEN 0
    ELSE 1 + CommonLen(a, i + 1, ahi, b, j + 1, bhi)

\* find_longest_match: the longest block, the earliest in a, then in b
FindLongestMatch(a, b, alo, ahi, blo, bhi) ==
    LET blocks == {<<i, j, CommonLen(a, i, ahi, b, j, bhi)>> : i \in alo..ahi, j \in blo..bhi}
        longest == CHOOSE m \in blocks : \A n \in blocks :
            \/ n[3] < m[3]
            \/ n[3] = m[3] /\ (m[1] < n[1] \/ (m[1] = n[1] /\ m[2] <= n[2]))
    IN  longest

RECURSIVE MatchingSize(_, _, _, _, _, _)
\* the total size of get_matching_blocks on a[alo..ahi], b[blo..bhi]
MatchingSize(a, b, alo, ahi, blo, bhi) ==
    IF alo > ahi \/ blo > bhi THEN 0
    ELSE LET m == FindLongestMatch(a, b, alo, ahi, blo, bhi)
         IN  IF m[3] = 0 THEN 0
             ELSE m[3]
                  + MatchingSize(a, b, alo, m[1] - 1, blo, m[2] - 1)
                  + MatchingSize(a, b, m[1] + m[3], ahi, m[2] + m[3], bhi)

SequenceMatcherRatio(a, b) ==
    IF Len(a) + Len(b) = 0 THEN RatOne
    ELSE <<2 * MatchingSize(a, b, 1, Len(a), 1, Len(b)), Len(a) + Len(b)>>

(***************************************************************************)
(* ColumnMapper: similarity scores of the fuzzy pass                       *)
(***************************************************************************)
_calculate_similarity(str1, str2) == SequenceMatcherRatio(Lower(str1), Lower(str2))

NGrams(s, n) == {SubSeq(s, i, i + n - 1) : i \in 1..(Len(s) - n + 1)}

_calculate_ngram_similarity(str1, str2) ==
    IF Len(str1) < 3 \/ Len(str2) < 3 THEN _calculate_similarity(str1, str2)
    ELSE LET ngrams1 == NGrams(Replace(Lower(str1), " ", ""), 3)
             ngrams2 == NGrams(Replace(Lower(str2), " ", ""), 3)
         IN  IF ngrams1 = {} \/ ngrams2 = {} THEN RatZero
             ELSE <<Cardinality(ngrams1 \cap ngrams2), Cardinality(ngrams1 \cup ngrams2)>>

_expand_with_synonyms(keywords) ==
    Range(keywords)
    \cup UNION {Range(HEADER_SYNONYMS[k]) : k \in Range(keywords) \cap DOMAIN HEADER_SYNONYMS}

\* keyword_score: 0.15 for each keyword that is a word of the header, 0.10
\* for each other keyword that occurs in it
KeywordScore(target_field, cleaned_header) ==
    LET expanded == _expand_with_synonyms(Split(Lower(target_field)))
        header_words == Range(Split(cleaned_header))
        whole == {k \in expanded : k \in header_words}
        partial == {k \in expanded \ whole : Contains(cleaned_header, k)}
    IN  Hundredths(15 * Cardinality(whole) + 10 * Cardinality(partial))

\* combined_score of a target field and a cleaned header
CombinedScore(target_field, cleaned_header) ==
    RatMin(RatAdd(RatMax(_calculate_similarity(target_field, cleaned_header),
                         _calculate_ngram_similarity(target_field, cleaned_header)),
                  KeywordScore(target_field, cleaned_header)),
           RatOne)

(***************************************************************************)
(* ColumnMapper: mapping_results and the passes of map_columns.            *)
(*                                                                         *)
(* mapping_results is a function from the keys written so far (target      *)
(* fields and the generic bucket "MSRP") to <<source header, confidence>>. *)
(***************************************************************************)
EmptyResults == [k \in {} |-> <<"", RatZero>>]
\* results[key] = entry
Put(results, key, entry) == (key :> entry) @@ results
\* [v[0] for v in results.values()]
MappedHeaders(results) == {results[k][1] : k \in DOMAIN results}
\* [v[0] for k, v in results.items() if v[1] > lock]
LockedHeaders(results, lock) ==
    {results[k][1] : k \in {x \in DOMAIN results : RatLT(lock, results[x][2])}}
IsRaise(r) == "kind" \in DOMAIN r
\* list.index: the first position of the item, 0 when list.index raises
ListIndex(list, item) ==
    IF \E i \in 1..Len(list) : list[i] = item
    THEN CHOOSE i \in 1..Len(list) : list[i] = item /\ \A j \in 1..(i - 1) : list[j] # item
    ELSE 0

NoMatch == <<>>
NoBest == [match |-> NoMatch, score |-> RatZero]

(***************************************************************************)
(* Pass 1: ColumnMapper._apply_pattern_matching                            *)
(***************************************************************************)
RECURSIVE PatternLoop(_, _, _, _, _)
\* for pattern in patterns, from the k-th on, for one header
PatternLoop(patterns, k, cleaned_header, original_header, best) ==
    IF k > Len(patterns) THEN best
    ELSE IF ReMatch(patterns[k], cleaned_header) /\ RatLT(best.score, RatOne)
         THEN [match |-> <<original_header, RatOne>>, score |-> RatOne]
         ELSE LET partial == /\ best.match = NoMatch
                             /\ ReSearch(patterns[k], cleaned_header)
                             /\ RatLT(best.score, Hundredths(80))
                  after == IF partial
                           THEN [match |-> <<original_header, Hundredths(80)>>,
                                 score |-> Hundredths(80)]
                           ELSE best
              IN  PatternLoop(patterns, k + 1, cleaned_header, original_header, after)

RECURSIVE PatternHeaderLoop_NoLock(_, _, _, _, _, _)
\* PatternHeaderLoop without its skip of the headers held above 0.9
PatternHeaderLoop_NoLock(patterns, i, cleaned_headers, original_headers, results, best) ==
    IF i > Len(cleaned_headers) THEN best
    ELSE PatternHeaderLoop_NoLock(patterns, i + 1, cleaned_headers, original_headers, results,
             PatternLoop(patterns, 1, cleaned_headers[i], original_headers[i], best))

RECURSIVE PatternHeaderLoop(_, _, _, _, _, _)
\* for i, cleaned_header in enumerate(cleaned_headers), from the i-th on
PatternHeaderLoop(patterns, i, cleaned_headers, original_headers, results, best) ==
    IF i > Len(cleaned_headers) THEN best
    ELSE IF original_headers[i] \in LockedHeaders(results, Hundredths(90))
         THEN PatternHeaderLoop(patterns, i + 1, cleaned_headers, original_headers, results, best)
         ELSE PatternHeaderLoop(patterns, i + 1, cleaned_headers, original_headers, results,
                  PatternLoop(patterns, 1, cleaned_headers[i], original_headers[i], best))

RECURSIVE PatternFieldLoop(_, _, _, _, _)
\* for target_field in TARGET_FIELDS, from the t-th on
PatternFieldLoop(t, cleaned_headers, original_headers, results, threshold) ==
    IF t > Len(TARGET_FIELDS) THEN results
    ELSE LET target_field == TARGET_FIELDS[t]
             best == PatternHeaderLoop(FIELD_PATTERNS[target_field], 1, cleaned_headers,
                                       original_headers, results, NoBest)
             after == IF /\ target_field \notin DOMAIN results
                         /\ best.match # NoMatch
                         /\ RatLE(threshold, best.score)
                      THEN Put(results, target_field, best.match)
                      ELSE results
         IN  PatternFieldLoop(t + 1, cleaned_headers, original_headers, after, threshold)

_apply_pattern_matching(cleaned_headers, original_headers, results, threshold) ==
    PatternFieldLoop(1, cleaned_headers, original_headers, results, threshold)

(***************************************************************************)
(* Pass 2: ColumnMapper._handle_generic_msrp                               *)
(***************************************************************************)
MSRP_FIELDS == <<"MSRP GBP", "MSRP USD", "MSRP EUR">>

\* the positions of the headers not yet mapped that match a generic pattern
GenericMsrpHeaders(cleaned_headers, original_headers, results) ==
    SelectSeq([i \in 1..Len(cleaned_headers) |-> i],
              LAMBDA i : /\ original_headers[i] \notin MappedHeaders(results)
                         /\ \E p \in 1..Len(GENERIC_MSRP_PATTERNS) :
                                Contains(cleaned_headers[i], GENERIC_MSRP_PATTERNS[p]))

RECURSIVE GenericMsrpLoop(_, _, _, _, _)
\* for i, orig_header, cleaned_header in generic_msrp_headers, from the g-th on
GenericMsrpLoop(generic, g, original_headers, header_info, results) ==
    IF g > Len(generic) THEN results
    ELSE LET i == generic[g]
             target_field == "MSRP " \o header_info[i].currency
             after ==
                 IF header_info[i].has_currency
                 THEN IF target_field \in Range(TARGET_FIELDS) /\ target_field \notin DOMAIN results
                      THEN Put(results, target_field, <<original_headers[i], Hundredths(90)>>)
                      ELSE results
                 ELSE IF "MSRP" \notin DOMAIN results
                      THEN Put(results, "MSRP", <<original_headers[i], Hundredths(80)>>)
                      ELSE results
         IN  GenericMsrpLoop(generic, g + 1, original_headers, header_info, after)

_handle_generic_msrp(cleaned_headers, original_headers, header_info, results) ==
    IF Range(MSRP_FIELDS) \subseteq DOMAIN results THEN results
    ELSE GenericMsrpLoop(GenericMsrpHeaders(cleaned_headers, original_headers, results),
                         1, original_headers, header_info, results)

(***************************************************************************)
(* Pass 3: ColumnMapper._apply_content_based_detection                     *)
(***************************************************************************)
\* Tables of cell-value patterns that config.field_mappings does not
\* define, modelled from the specification: a currency-specific MSRP field
\* needs the currency's symbol or ISO code in the cells, and the value format
\* of a SKU is letters, a hyphen, digits.
CURRENCY_VALUE_KEYS == <<"GBP", "USD", "EUR">>
CURRENCY_VALUE_PATTERNS ==
    [c \in Range(CURRENCY_VALUE_KEYS) |->
        CASE c = "GBP" -> <<PoundSign, "GBP">>
          [] c = "USD" -> <<"$", "USD">>
          [] c = "EUR" -> <<EuroSign, "EUR">>]
FIELD_VALUE_FORMAT_KEYS == {"SKU"}
AllIn(s, chars) == \A i \in 1..Len(s) : Char(s, i) \in chars
Letters == {Char(UpperLetters, i) : i \in 1..Len(UpperLetters)}
           \cup {Char(LowerLetters, i) : i \in 1..Len(LowerLetters)}
\* any(re.match(pattern, text, re.IGNORECASE) for pattern in
\* FIELD_VALUE_FORMATS[field]), the one format being ^[A-Z]+-\d+$
MatchesValueFormat(field, text) ==
    /\ field = "SKU"
    /\ \E k \in 2..(Len(text) - 1) :
          /\ Char(text, k) = "-"
          /\ AllIn(SubSeq(text, 1, k - 1), Letters)
          /\ AllIn(SubSeq(text, k + 1, Len(text)), Digits)

\* str(value) of a cell
PyStr(v) ==
    CASE v.kind = "str" -> v.s
      [] v.kind = "int" -> v.digits
      [] v.kind = "float" -> v.ip \o "." \o (IF v.fp = "" THEN "0" ELSE v.fp)
      [] OTHER -> "None"

\* value is not None and value != ""
NonEmptyCells(column) == {r \in 1..Len(column) : column[r] # None /\ column[r] # Str("")}

\* re.search(price_pattern, value): an optional symbol, then a run of digits
\* and commas that no digit follows; any text with a digit or a comma has one
LooksLikePrice(v) ==
    \/ v.kind \in {"int", "float"}
    \/ v.kind = "str" /\ \E i \in 1..Len(v.s) : Char(v.s, i) \in Digits \cup {","}

_is_price_column(column) ==
    LET num_values == Cardinality(NonEmptyCells(column))
        num_prices == Cardinality({r \in NonEmptyCells(column) : LooksLikePrice(column[r])})
    IN  num_values > 0 /\ 10 * num_prices > 7 * num_values

CurrencyCount(column, currency) ==
    IF currency \notin Range(CURRENCY_VALUE_KEYS) THEN 0
    ELSE Cardinality({r \in 1..Len(column) :
            /\ column[r].kind = "str"
            /\ \E p \in 1..Len(CURRENCY_VALUE_PATTERNS[currency]) :
                   Contains(Lower(column[r].s), Lower(CURRENCY_VALUE_PATTERNS[currency][p]))})

\* the most common currency, the first of the table on a tie, if it occurs
\* in at least three cells; "" for None
_detect_currency_from_values(column) ==
    LET most_common == CHOOSE k \in 1..Len(CURRENCY_CODES) :
            /\ \A j \in 1..Len(CURRENCY_CODES) :
                   CurrencyCount(column, CURRENCY_CODES[j]) <= CurrencyCount(column, CURRENCY_CODES[k])
            /\ \A j \in 1..(k - 1) :
                   CurrencyCount(column, CURRENCY_CODES[j]) < CurrencyCount(column, CURRENCY_CODES[k])
    IN  IF CurrencyCount(column, CURRENCY_CODES[most_common]) >= 3
        THEN CURRENCY_CODES[most_common]
        ELSE ""

_matches_field_format(column, field) ==
    LET num_values == Cardinality(NonEmptyCells(column))
        num_matches == Cardinality({r \in NonEmptyCells(column) :
                           MatchesValueFormat(field, PyStr(column[r]))})
    IN  /\ field \in FIELD_VALUE_FORMAT_KEYS
        /\ num_values > 0
        /\ 10 * num_matches > 7 * num_values

\* column i of the sample rows, None where a row is too short
Column(sample_data, i) ==
    [r \in 1..Len(sample_data) |->
        IF i <= Len(sample_data[r]) THEN sample_data[r][i] ELSE None]

\* the price check of one column without its checks that the field is unmapped
ContentPriceCheck_Overwrite(header, column, results) ==
    IF ~_is_price_column(column) THEN results
    ELSE LET currency == _detect_currency_from_values(column)
             target_field == "MSRP " \o currency
         IN  IF currency # ""
             THEN IF target_field \in Range(TARGET_FIELDS)
                  THEN Put(results, target_field, <<header, Hundredths(85)>>)
                  ELSE results
             ELSE Put(results, "MSRP", <<header, Hundredths(75)>>)

\* the price check of one column
ContentPriceCheck(header, column, results) ==
    IF ~_is_price_column(column) THEN results
    ELSE LET currency == _detect_currency_from_values(column)
             target_field == "MSRP " \o currency
         IN  IF currency # ""
             THEN IF target_field \in Range(TARGET_FIELDS) /\ target_field \notin DOMAIN results
                  THEN Put(results, target_field, <<header, Hundredths(85)>>)
                  ELSE results
             ELSE IF "MSRP" \notin DOMAIN results
                  THEN Put(results, "MSRP", <<header, Hundredths(75)>>)
                  ELSE results

RECURSIVE ContentFormatLoop(_, _, _, _, _)
\* for field in fields_to_check, from the k-th on, with its break
ContentFormatLoop(fields_to_check, k, header, column, results) ==
    IF k > Len(fields_to_check) THEN results
    ELSE IF _matches_field_format(column, fields_to_check[k])
         THEN Put(results, fields_to_check[k], <<header, Hundredths(80)>>)
         ELSE ContentFormatLoop(fields_to_check, k + 1, header, column, results)

RECURSIVE ContentHeaderLoop(_, _, _, _, _)
\* for i, (header, column) in enumerate(zip(headers, columns)), from the i-th on
ContentHeaderLoop(i, headers, sample_data, fields_to_check, results) ==
    IF i > Len(headers) THEN results
    ELSE IF headers[i] \in MappedHeaders(results)
         THEN ContentHeaderLoop(i + 1, headers, sample_data, fields_to_check, results)
         ELSE LET column == Column(sample_data, i)
                  priced == ContentPriceCheck(headers[i], column, results)
              IN  ContentHeaderLoop(i + 1, headers, sample_data, fields_to_check,
                      ContentFormatLoop(fields_to_check, 1, headers[i], column, priced))

_apply_content_based_detection(headers, sample_data, results) ==
    IF Len(sample_data) = 0 THEN results
    ELSE ContentHeaderLoop(1, headers, sample_data,
             SelectSeq(TARGET_FIELDS,
                       LAMBDA f : f \notin DOMAIN results /\ f \in FIELD_VALUE_FORMAT_KEYS),
             results)

(***************************************************************************)
(* Pass 4: ColumnMapper._apply_contextual_detection, _infer_price_fields   *)
(***************************************************************************)
\* sum(1 for kw in keywords if kw in nearby_cleaned)
KeywordMatches(keywords, nearby_cleaned) ==
    Cardinality({k \in 1..Len(keywords) : Contains(nearby_cleaned, keywords[k])})

RECURSIVE RelatedFieldLoop(_, _, _, _, _)
\* for related_field in related_fields, from the k-th on (there is no break)
RelatedFieldLoop(related_fields, k, nearby_header, nearby_cleaned, results) ==
    IF k > Len(related_fields) THEN results
    ELSE LET related_field == related_fields[k]
             keyword_matches == KeywordMatches(Split(Lower(related_field)), nearby_cleaned)
             confidence == RatAdd(Hundredths(60), Hundredths(10 * keyword_matches))
             after == IF related_field \notin DOMAIN results /\ keyword_matches > 0
                      THEN Put(results, related_field,
                               <<nearby_header, RatMin(confidence, Hundredths(85))>>)
                      ELSE results
         IN  RelatedFieldLoop(related_fields, k + 1, nearby_header, nearby_cleaned, after)

RECURSIVE NearbyLoop(_, _, _, _, _, _, _)
\* for offset in range(offset, last + 1)
NearbyLoop(offset, last, field_index, related_fields, headers, cleaned_headers, results) ==
    IF offset > last THEN results
    ELSE LET nearby_index == field_index + offset
             skip == \/ nearby_index = field_index
                     \/ nearby_index < 1
                     \/ nearby_index > Len(headers)
                     \/ headers[nearby_index] \in MappedHeaders(results)
             after == IF skip THEN results
                      ELSE RelatedFieldLoop(related_fields, 1, headers[nearby_index],
                                            cleaned_headers[nearby_index], results)
         IN  NearbyLoop(offset + 1, last, field_index, related_fields, headers,
                        cleaned_headers, after)

RECURSIVE RelationshipLoop(_, _, _, _)
\* for field, related_fields in FIELD_RELATIONSHIPS.items(), from the f-th on
RelationshipLoop(f, headers, cleaned_headers, results) ==
    IF f > Len(FIELD_RELATIONSHIP_KEYS) THEN results
    ELSE LET field == FIELD_RELATIONSHIP_KEYS[f]
         IN  IF field \notin DOMAIN results
             THEN RelationshipLoop(f + 1, headers, cleaned_headers, results)
             ELSE LET field_index == ListIndex(headers, results[field][1])
                  IN  IF field_index = 0 THEN Raise("ValueError")
                      ELSE RelationshipLoop(f + 1, headers, cleaned_headers,
                               NearbyLoop(-2, 2, field_index, FIELD_RELATIONSHIPS[field],
                                          headers, cleaned_headers, results))

MSRP_FAMILY == <<"MSRP", "MSRP GBP", "MSRP USD", "MSRP EUR">>
COST_TERMS == <<"cost", "buy", "wholesale", "net", "dealer">>

RECURSIVE CostLoop(_, _, _, _, _)
\* for offset in range(offset, 4) around the MSRP column
CostLoop(offset, msrp_index, headers, cleaned_headers, results) ==
    IF offset > 3 THEN results
    ELSE LET cost_index == msrp_index + offset
             skip == \/ offset = 0
                     \/ cost_index < 1
                     \/ cost_index > Len(headers)
                     \/ headers[cost_index] \in MappedHeaders(results)
             cost_cleaned == cleaned_headers[cost_index]
             found == /\ \E t \in 1..Len(COST_TERMS) : Contains(cost_cleaned, COST_TERMS[t])
                      /\ ~Contains(cost_cleaned, "retail")
                      /\ ~Contains(cost_cleaned, "list")
             after == IF ~skip /\ found
                      THEN Put(results, "Buy Cost", <<headers[cost_index], Hundredths(70)>>)
                      ELSE results
         IN  CostLoop(offset + 1, msrp_index, headers, cleaned_headers, after)

\* next(field for field in [...] if field in results): 0 for StopIteration
FirstMsrpField(results) ==
    IF \E k \in 1..Len(MSRP_FAMILY) : MSRP_FAMILY[k] \in DOMAIN results
    THEN CHOOSE k \in 1..Len(MSRP_FAMILY) :
            /\ MSRP_FAMILY[k] \in DOMAIN results
            /\ \A j \in 1..(k - 1) : MSRP_FAMILY[j] \notin DOMAIN results
    ELSE 0

\* _infer_price_fields without its check that an MSRP field is mapped
_infer_price_fields_Unguarded(headers, cleaned_headers, results) ==
    IF "Buy Cost" \notin DOMAIN results
    THEN LET msrp_field == FirstMsrpField(results)
             msrp_index == ListIndex(headers, results[MSRP_FAMILY[msrp_field]][1])
         IN  IF msrp_field = 0 THEN Raise("StopIteration")
             ELSE IF msrp_index = 0 THEN Raise("ValueError")
             ELSE CostLoop(-3, msrp_index, headers, cleaned_headers, results)
    ELSE results

_infer_price_fields(headers, cleaned_headers, results) ==
    IF /\ \E k \in 1..Len(MSRP_FAMILY) : MSRP_FAMILY[k] \in DOMAIN results
       /\ "Buy Cost" \notin DOMAIN results
    THEN LET msrp_field == FirstMsrpField(results)
             msrp_index == ListIndex(headers, results[MSRP_FAMILY[msrp_field]][1])
         IN  IF msrp_field = 0 THEN Raise("StopIteration")
             ELSE IF msrp_index = 0 THEN Raise("ValueError")
             ELSE CostLoop(-3, msrp_index, headers, cleaned_headers, results)
    ELSE results

_apply_contextual_detection(headers, cleaned_headers, results) ==
    LET related == RelationshipLoop(1, headers, cleaned_headers, results)
    IN  IF IsRaise(related) THEN related
        ELSE _infer_price_fields(headers, cleaned_headers, related)

(***************************************************************************)
(* The header lists map_columns is called on: every list of at most        *)
(* MaxHeaders headers of HeaderUniverse, and the lists of the              *)
(* specification's scenarios.                                              *)
(***************************************************************************)
MaxHeaders == 3
HeaderUniverse == {"SKU", "MSRP", "List Price", ("RRP " \o PoundSign), "Our Cost", "Notes"}
\* the header lists of the specification's scenarios, two lists with a
\* cost-like header that no pattern of Pass 1 matches, and two lists whose
\* headers match different patterns of SKU, and a list with a header for
\* each currency-specific MSRP field next to a generic one, and a list with
\* a dollar sign in brackets
ScenarioHeaders ==
    { <<"SKU", "Product Name", "Cost", ("RRP " \o PoundSign)>>,
      <<"Item Code", "Title", "List Price">>,
      <<"SKU", "Description", "MSRP USD", "Dealer Cost">>,
      <<"Dealer", ("RRP " \o PoundSign)>>,
      <<"SKU", "MSRP", "Retail Cost", "Dealer">>,
      <<"EAN", "SKU">>,
      <<"SKU", "EAN">>,
      <<"GBP", "USD", "EUR", "MSRP">>,
      <<"SKU", "Price ($)">> }
RECURSIVE ListsUpTo(_, _)
ListsUpTo(universe, n) ==
    IF n = 0 THEN {<<>>}
    ELSE ListsUpTo(universe, n - 1)
         \cup {Append(l, h) : l \in {x \in ListsUpTo(universe, n - 1) : Len(x) = n - 1},
                              h \in universe}
HeaderLists == ListsUpTo(HeaderUniverse, MaxHeaders) \cup ScenarioHeaders

\* the files of the model: a sheet is a header row and at most MaxDataRows
\* data rows
MaxDataRows == 2
SheetHeaders ==
    { <<"Description", "Cost">>, <<"Notes", "Cost">>,
      <<"Notes", "List Price">>, <<"Notes", "Comment">>,
      <<"Description", "Discontinued">> }

AllHeaders ==
    HeaderUniverse \cup UNION {Range(l) : l \in ScenarioHeaders \cup SheetHeaders}

(***************************************************************************)
(* Pass 5: ColumnMapper._apply_fuzzy_matching                              *)
(***************************************************************************)
\* combined_score of every target field and cleaned header of AllHeaders;
\* @@ makes TLC compute the table once
FuzzyScores ==
    [fc \in Range(TARGET_FIELDS) \X {_clean_header(h) : h \in AllHeaders} |->
        CombinedScore(fc[1], fc[2])] @@ <<>>
CombinedScoreOf(target_field, cleaned_header) ==
    IF <<target_field, cleaned_header>> \in DOMAIN FuzzyScores
    THEN FuzzyScores[<<target_field, cleaned_header>>]
    ELSE CombinedScore(target_field, cleaned_header)

RECURSIVE FuzzyHeaderLoop(_, _, _, _, _, _)
\* for i, cleaned_header in enumerate(cleaned_headers), from the i-th on
FuzzyHeaderLoop(target_field, i, cleaned_headers, original_headers, results, best) ==
    IF i > Len(cleaned_headers) THEN best
    ELSE LET combined_score == CombinedScoreOf(target_field, cleaned_headers[i])
             after == IF /\ original_headers[i] \notin LockedHeaders(results, Hundredths(85))
                         /\ RatLT(best.score, combined_score)
                      THEN [match |-> <<original_headers[i], combined_score>>,
                            score |-> combined_score]
                      ELSE best
         IN  FuzzyHeaderLoop(target_field, i + 1, cleaned_headers, original_headers,
                             results, after)

RECURSIVE FuzzyTargetLoop_NoThreshold(_, _, _, _, _, _)
\* FuzzyTargetLoop accepting the best header whatever its score
FuzzyTargetLoop_NoThreshold(unmatched_targets, t, cleaned_headers, original_headers, results, threshold) ==
    IF IsRaise(results) \/ t > Len(unmatched_targets) THEN results
    ELSE LET best == FuzzyHeaderLoop(unmatched_targets[t], 1, cleaned_headers,
                                     original_headers, results, NoBest)
             after == IF best.match # NoMatch
                      THEN Put(results, unmatched_targets[t], best.match)
                      ELSE results
         IN  FuzzyTargetLoop_NoThreshold(unmatched_targets, t + 1, cleaned_headers,
                                         original_headers, after, threshold)

RECURSIVE FuzzyTargetLoop(_, _, _, _, _, _)
\* for target_field in unmatched_targets, from the t-th on
FuzzyTargetLoop(unmatched_targets, t, cleaned_headers, original_headers, results, threshold) ==
    IF IsRaise(results) \/ t > Len(unmatched_targets) THEN results
    ELSE LET best == FuzzyHeaderLoop(unmatched_targets[t], 1, cleaned_headers,
                                     original_headers, results, NoBest)
             after == IF best.match # NoMatch /\ RatLE(threshold, best.score)
                      THEN Put(results, unmatched_targets[t], best.match)
                      ELSE results
         IN  FuzzyTargetLoop(unmatched_targets, t + 1, cleaned_headers, original_headers,
                             after, threshold)

_apply_fuzzy_matching(cleaned_headers, original_headers, results, threshold) ==
    LET unmatched_targets == SelectSeq(TARGET_FIELDS, LAMBDA f : f \notin DOMAIN results)
    IN  IF unmatched_targets = <<>> \/ cleaned_headers = <<>> THEN results
        ELSE FuzzyTargetLoop(unmatched_targets, 1, cleaned_headers, original_headers,
                             results, threshold)

(***************************************************************************)
(* ColumnMapper.map_columns                                                *)
(***************************************************************************)
CleanHeaders(headers) == [i \in 1..Len(headers) |-> _clean_header(headers[i])]
\* header_info[i] = self._extract_header_info(header, cleaned)
HeaderInfo(headers, cleaned) ==
    [i \in 1..Len(headers) |-> _extract_header_info(headers[i], cleaned[i])]

\* field_mapping = {target: orig_header for target, (orig_header, _) in ...}
FieldMapping(results) == [k \in DOMAIN results |-> results[k][1]]

\* if sample_data and len(sample_data) > 0
HasSampleData(sample_data) == sample_data.kind = "list" /\ Len(sample_data.rows) > 0

(***************************************************************************)
(* More of Python: bool, truth, slices.                                    *)
(***************************************************************************)
PyBool(b) == [kind |-> "bool", b |-> b]

\* bool(v): the truth of a value
Truthy(v) ==
    CASE v.kind = "None" -> FALSE
      [] v.kind = "str" -> v.s # ""
      [] v.kind = "int" -> StripLeadingZeros(v.digits) # "0"
      [] v.kind = "float" -> ~(v.ip = "0" /\ v.fp = "")
      [] v.kind = "bool" -> v.b
      [] OTHER -> TRUE

\* str(v) and, as far as a search for a currency indicator can tell, repr(v)
Text(v) ==
    IF v.kind = "bool" THEN (IF v.b THEN "True" ELSE "False") ELSE PyStr(v)

Min(a, b) == IF a < b THEN a ELSE b
Max(a, b) == IF a < b THEN b ELSE a

\* s[a:b] with Python's 0-based bounds: a negative bound counts from the end
PySlice(s, a, b) ==
    LET n == Len(s)
        from == IF a < 0 THEN Max(0, n + a) ELSE Min(a, n)
        to == IF b < 0 THEN Max(0, n + b) ELSE Min(b, n)
    IN  SubSeq(s, from + 1, to)

\* a dict, as a function of its keys
EmptyDict == [key \in {} |-> None]
DictGet(dict, key) == IF key \in DOMAIN dict THEN dict[key] ELSE None

(***************************************************************************)
(* PriceUtils.detect_currency                                              *)
(***************************************************************************)
\* detect_currency without value.lower()
detect_currency_CaseSensitive(v) ==
    IF v.kind # "str" \/ v.s = "" THEN None
    ELSE LET currency == FirstCurrency(v.s, 1)
         IN  IF currency = "" THEN None ELSE Str(currency)

detect_currency(v) ==
    IF v.kind # "str" \/ v.s = "" THEN None
    ELSE LET currency == FirstCurrency(Lower(v.s), 1)
         IN  IF currency = "" THEN None ELSE Str(currency)

(***************************************************************************)
(* config/field_mappings.py: ROW_PRICE_PATTERNS.  None of the patterns is  *)
(* anchored; each is the list of the texts it matches, in the order in     *)
(* which the regex engine tries them (alternatives from left to right, an  *)
(* optional part first present then absent), and whether \b surrounds it.  *)
(* The texts searched hold lower-case matches after Lower (re.IGNORECASE). *)
(***************************************************************************)
RECURSIVE PrefixLoop(_, _, _)
\* word before every text of rest, from the k-th on
PrefixLoop(word, rest, k) ==
    IF k > Len(rest) THEN <<>>
    ELSE <<word \o rest[k]>> \o PrefixLoop(word, rest, k + 1)
RECURSIVE ProductLoop(_, _, _)
\* every text of first, from the j-th on, before every text of rest
ProductLoop(first, rest, j) ==
    IF j > Len(first) THEN <<>>
    ELSE PrefixLoop(first[j], rest, 1) \o ProductLoop(first, rest, j + 1)
RECURSIVE Concat(_)
\* the concatenations of one text of each part, in the engine's order
Concat(parts) ==
    IF parts = <<>> THEN <<"">>
    ELSE ProductLoop(Head(parts), Concat(Tail(parts)), 1)
Optional(part) == part \o <<"">>
\* \s*: one blank or nothing (the descriptions hold single blanks only)
Blanks == <<" ", "">>
\* (?:\s|-)
Sep == <<" ", "-">>

ROW_PRICE_PATTERNS_Buy_Cost ==
    << [boundary |-> FALSE,
        words |-> Concat(<<(<<"buy", "cost", "wholesale", "net", "dealer",
                  "base">>), Sep, (<<"cost", "price">>)>>)],
       [boundary |-> FALSE,
        words |-> Concat(<<(<<"cost", "price">>), Sep, (<<"to", "for">>),
                  Sep, (<<"buy", "dealer", "distributor", "reseller">>)>>)],
       [boundary |-> TRUE,
        words |-> (<<"cost">> \o Concat(<< <<"landed">>, Blanks,
                  <<"cost">> >>) \o Concat(<< <<"purchase">>, Blanks,
                  <<"price">> >>) \o Concat(<< <<"dealer">>, Blanks,
                  <<"cost">> >>))],
       [boundary |-> TRUE,
        words |-> (Concat(<< <<"inventory">>, Blanks, (<<"cost",
                  "price">>)>>) \o Concat(<< <<"procurement">>, Blanks,
                  (<<"cost", "price">>)>>) \o Concat(<< <<"factory">>,
                  Blanks, <<"price">> >>))],
       [boundary |-> TRUE,
        words |-> (Concat(<< <<"supplier">>, Blanks, (<<"cost",
                  "price">>)>>) \o Concat(<< <<"manufacturer">>, Blanks,
                  (<<"cost", "price">>)>>) \o Concat(<< <<"acquisition">>,
                  Blanks, <<"cost">> >>))] >>

ROW_PRICE_PATTERNS_Trade_Price ==
    << [boundary |-> FALSE,
        words |-> Concat(<<(<<"trade", "dealer", "distributor", "reseller",
                  "wholesale">>), Sep, (<<"cost", "price">>)>>)],
       [boundary |-> FALSE,
        words |-> Concat(<< <<"price">>, Sep, (<<"to", "for">>), Sep,
                  (<<"trade", "dealer", "distributor", "reseller">>)>>)],
       [boundary |-> TRUE,
        words |-> (Concat(<< <<"wholesale">>, Blanks,
                  <<"price">> >>) \o Concat(<< <<"b2b">>, Blanks,
                  <<"price">> >>) \o Concat(<< <<"commercial">>, Blanks,
                  <<"price">> >>) \o Concat(<< <<"partner">>, Blanks,
                  <<"price">> >>))],
       [boundary |-> TRUE,
        words |-> (Concat(<< <<"channel">>, Blanks,
                  <<"price">> >>) \o Concat(<< <<"net">>, Blanks,
                  <<"price">> >>) \o Concat(<< <<"discount">>, Blanks,
                  <<"price">> >>) \o Concat(<< <<"special">>, Blanks,
                  <<"price">> >>))],
       [boundary |-> TRUE,
        words |-> (Concat(<< <<"contractor">>, Blanks,
                  <<"price">> >>) \o Concat(<< <<"pro">>, Blanks,
                  <<"price">> >>) \o Concat(<< <<"trade">>, Blanks,
                  <<"discount">> >>) \o Concat(<< <<"professional">>, Blanks,
                  <<"price">> >>))] >>

ROW_PRICE_PATTERNS_MSRP ==
    << [boundary |-> FALSE,
        words |-> Concat(<<(<<"msrp", "srp", "rrp", "list", "retail",
                  "resale", "recommended", "suggested">>), Sep, (<<"price",
                  "cost">>)>>)],
       [boundary |-> TRUE,
        words |-> (Concat(<< <<"public">>, Blanks,
                  <<"price">> >>) \o Concat(<< <<"consumer">>, Blanks,
                  <<"price">> >>) \o Concat(<< <<"retail">>, Blanks,
                  <<"price">> >>) \o Concat(<< <<"end">>, Blanks, <<"user">>,
                  Blanks, <<"price">> >>))],
       [boundary |-> TRUE,
        words |-> (Concat(<< <<"advertised">>, Blanks,
                  <<"price">> >>) \o Concat(<< <<"catalog">>, Blanks,
                  <<"price">> >>) \o Concat(<< <<"selling">>, Blanks,
                  <<"price">> >>) \o Concat(<< <<"customer">>, Blanks,
                  <<"price">> >>))],
       [boundary |-> TRUE,
        words |-> (Concat(<< <<"market">>, Blanks,
                  <<"price">> >>) \o Concat(<< <<"published">>, Blanks,
                  <<"price">> >>) \o Concat(<< <<"sticker">>, Blanks,
                  <<"price">> >>))] >>

ROW_PRICE_PATTERNS_MSRP_GBP ==
    << [boundary |-> FALSE,
        words |-> Concat(<<(<<"msrp", "srp", "rrp", "list", "retail",
                  "resale", "recommended", "suggested">>), Sep, (<<"price",
                  "cost">>), Sep, (<<"gbp", PoundSign, "pounds">>)>>)],
       [boundary |-> FALSE,
        words |-> Concat(<<(<<"gbp", PoundSign>> \o Concat(<< <<"pound">>,
                  Optional(<<"s">>)>>)), Sep, (<<"price", "cost",
                  "retail">>)>>)],
       [boundary |-> FALSE,
        words |-> Concat(<< <<"uk">>, Sep, (<<"price", "retail", "msrp",
                  "rrp">>)>>)] >>

ROW_PRICE_PATTERNS_MSRP_USD ==
    << [boundary |-> FALSE,
        words |-> Concat(<<(<<"msrp", "srp", "rrp", "list", "retail",
                  "resale", "recommended", "suggested">>), Sep, (<<"price",
                  "cost">>), Sep, (<<"usd", "$">> \o Concat(<< <<"dollar">>,
                  Optional(<<"s">>)>>))>>)],
       [boundary |-> FALSE,
        words |-> Concat(<<(<<"usd", "$">> \o Concat(<< <<"dollar">>,
                  Optional(<<"s">>)>>)), Sep, (<<"price", "cost",
                  "retail">>)>>)],
       [boundary |-> FALSE,
        words |-> Concat(<< <<"us">>, Sep, (<<"price", "retail", "msrp",
                  "rrp">>)>>)] >>

ROW_PRICE_PATTERNS_MSRP_EUR ==
    << [boundary |-> FALSE,
        words |-> Concat(<<(<<"msrp", "srp", "rrp", "list", "retail",
                  "resale", "recommended", "suggested">>), Sep, (<<"price",
                  "cost">>), Sep, (<<"eur", EuroSign>> \o Concat(<< <<"euro">>,
                  Optional(<<"s">>)>>))>>)],
       [boundary |-> FALSE,
        words |-> Concat(<<(<<"eur", EuroSign>> \o Concat(<< <<"euro">>,
                  Optional(<<"s">>)>>)), Sep, (<<"price", "cost",
                  "retail">>)>>)],
       [boundary |-> FALSE,
        words |-> Concat(<< <<"eu">>, Sep, (<<"price", "retail", "msrp",
                  "rrp">>)>>)] >>
ROW_PRICE_TYPES == <<"Buy Cost", "Trade Price", "MSRP", "MSRP GBP", "MSRP USD", "MSRP EUR">>
ROW_PRICE_PATTERNS ==
    [price_type \in Range(ROW_PRICE_TYPES) |->
        CASE price_type = "Buy Cost" -> ROW_PRICE_PATTERNS_Buy_Cost
          [] price_type = "Trade Price" -> ROW_PRICE_PATTERNS_Trade_Price
          [] price_type = "MSRP" -> ROW_PRICE_PATTERNS_MSRP
          [] price_type = "MSRP GBP" -> ROW_PRICE_PATTERNS_MSRP_GBP
          [] price_type = "MSRP USD" -> ROW_PRICE_PATTERNS_MSRP_USD
          [] price_type = "MSRP EUR" -> ROW_PRICE_PATTERNS_MSRP_EUR] @@ <<>>

(***************************************************************************)
(* re.finditer and re.search on a description                              *)
(***************************************************************************)
\* \b between the characters k and k + 1 of text (k = 0: before the first)
WordBoundary(text, k) ==
    (k >= 1 /\ k <= Len(text) /\ Char(text, k) \in WordChars)
    # (k + 1 <= Len(text) /\ Char(text, k + 1) \in WordChars)

\* the text of words[w] stands at position i of lowered, between word
\* boundaries where the pattern asks for them
WordAt(lowered, pattern, w, i) ==
    LET word == pattern.words[w]
        end == i + Len(word) - 1
    IN  /\ end <= Len(lowered)
        /\ SubSeq(lowered, i, end) = word
        /\ pattern.boundary =>
              WordBoundary(lowered, i - 1) /\ WordBoundary(lowered, end)

\* the match of the pattern that starts at position i: the position of its
\* last character, 0 when there is no match at i
MatchEnd(lowered, pattern, i) ==
    LET found == {w \in 1..Len(pattern.words) : WordAt(lowered, pattern, w, i)}
    IN  IF found = {} THEN 0
        ELSE LET w == CHOOSE x \in found : \A y \in found : x <= y
             IN  i + Len(pattern.words[w]) - 1

RECURSIVE FindIter(_, _, _)
\* re.finditer(pattern, row_data, re.IGNORECASE) from position i on: the
\* match.end() of the matches, from left to right, none overlapping
FindIter(lowered, pattern, i) ==
    LET starts == {j \in i..Len(lowered) : MatchEnd(lowered, pattern, j) # 0}
    IN  IF starts = {} THEN <<>>
        ELSE LET start == CHOOSE x \in starts : \A y \in starts : x <= y
                 end == MatchEnd(lowered, pattern, start)
             IN  <<end>> \o FindIter(lowered, pattern, end + 1)

NumberChars == Digits \cup Whitespace \cup {",", "."}
RECURSIVE NumberRun(_, _)
\* the end of the run of [\d\s,\.] that starts at position i
NumberRun(text, i) ==
    IF i <= Len(text) /\ Char(text, i) \in NumberChars
    THEN NumberRun(text, i + 1) ELSE i - 1

\* re.search(r'[-+]?\d[\d\s,\.]*', text): the group, "" when nothing matches
\* (a match is never empty)
NumberSearch(text) ==
    LET starts == {i \in 1..Len(text) :
                     \/ Char(text, i) \in Digits
                     \/ /\ Char(text, i) \in {"-", "+"}
                        /\ i < Len(text)
                        /\ Char(text, i + 1) \in Digits}
    IN  IF starts = {} THEN ""
        ELSE LET i == CHOOSE x \in starts : \A y \in starts : x <= y
                 first_digit == IF Char(text, i) \in Digits THEN i ELSE i + 1
             IN  SubSeq(text, i, NumberRun(text, first_digit + 1))

(***************************************************************************)
(* PriceUtils.extract_prices_from_row_format                               *)
(***************************************************************************)
NoPrice == [found |-> FALSE]

RECURSIVE MatchLoop(_, _, _)
\* for match in matches, from the m-th on: the first match with a number
\* within 50 characters after it that normalize_price accepts
MatchLoop(row_data, ends, m) ==
    IF m > Len(ends) THEN NoPrice
    ELSE LET start_pos == ends[m]
             price_text == NumberSearch(PySlice(row_data, start_pos, start_pos + 50))
             price_value == IF price_text = "" THEN None
                            ELSE normalize_price(Str(price_text))
         IN  IF price_value # None
             THEN [found |-> TRUE, price_value |-> price_value, start_pos |-> start_pos]
             ELSE MatchLoop(row_data, ends, m + 1)

\* the key under which a price of this type is stored
PriceKey(row_data, price_type, start_pos) ==
    IF price_type = "MSRP"
    THEN LET currency == detect_currency(
                             Str(PySlice(row_data, start_pos - 20, start_pos + 50)))
         IN  IF currency # None THEN "MSRP " \o currency.s ELSE price_type
    ELSE price_type

RECURSIVE RowPatternLoop(_, _, _, _, _)
\* for price_type, patterns in ROW_PRICE_PATTERNS.items(), from the t-th
\* type and its p-th pattern on
RowPatternLoop(row_data, lowered, prices, t, p) ==
    IF t > Len(ROW_PRICE_TYPES) THEN prices
    ELSE LET price_type == ROW_PRICE_TYPES[t]
             patterns == ROW_PRICE_PATTERNS[price_type]
         IN  IF p > Len(patterns)
             THEN RowPatternLoop(row_data, lowered, prices, t + 1, 1)
             ELSE LET hit == MatchLoop(row_data, FindIter(lowered, patterns[p], 1), 1)
                      after == IF hit.found
                               THEN Put(prices,
                                        PriceKey(row_data, price_type, hit.start_pos),
                                        hit.price_value)
                               ELSE prices
                  IN  RowPatternLoop(row_data, lowered, after, t, p + 1)

extract_prices_from_row_format(row_data) ==
    IF row_data.kind # "str" \/ row_data.s = "" THEN EmptyDict
    ELSE RowPatternLoop(row_data.s, Lower(row_data.s), EmptyDict, 1, 1)

\* PriceUtils.extract_prices_from_description
extract_prices_from_description(description) ==
    IF description.kind # "str" \/ description.s = "" THEN EmptyDict
    ELSE extract_prices_from_row_format(description)

(***************************************************************************)
(* PriceUtils.validate_price_fields                                        *)
(***************************************************************************)
price_fields == <<"Buy Cost", "Trade Price", "MSRP GBP", "MSRP USD", "MSRP EUR">>

RECURSIVE NormalizeLoop(_, _)
\* for field in price_fields, from the k-th on; an exception of
\* normalize_price leaves the loop
NormalizeLoop(data, k) ==
    IF IsRaise(data) \/ k > Len(price_fields) THEN data
    ELSE LET field == price_fields[k]
         IN  IF field \in DOMAIN data
             THEN LET normalized == normalize_price(data[field])
                  IN  IF normalized.kind = "raise" THEN normalized
                      ELSE NormalizeLoop(Put(data, field, normalized), k + 1)
             ELSE NormalizeLoop(data, k + 1)

\* any(hint in str(data).lower() for hint in CURRENCY_INDICATORS.get(currency, [])):
\* str(data) strings together the keys and the values of the row with quotes,
\* colons and commas between them, none of which is part of an indicator
HintInRow(data, currency) ==
    /\ currency \in DOMAIN CURRENCY_INDICATORS
    /\ \E h \in 1..Len(CURRENCY_INDICATORS[currency]) :
          \E key \in DOMAIN data :
              \/ Contains(Lower(key), CURRENCY_INDICATORS[currency][h])
              \/ Contains(Lower(Text(data[key])), CURRENCY_INDICATORS[currency][h])

MSRP_CURRENCY_FIELDS == <<"MSRP GBP", "MSRP USD", "MSRP EUR">>

RECURSIVE GenericMsrpFieldLoop(_, _, _)
\* for currency_field in ["MSRP GBP", "MSRP USD", "MSRP EUR"], from the k-th on
GenericMsrpFieldLoop(data, generic_msrp, k) ==
    IF k > Len(MSRP_CURRENCY_FIELDS) THEN data
    ELSE LET currency_field == MSRP_CURRENCY_FIELDS[k]
             currency == SubSeq(currency_field, Len(currency_field) - 2, Len(currency_field))
             after == IF /\ (currency_field \notin DOMAIN data \/ data[currency_field] = None)
                         /\ HintInRow(data, currency)
                      THEN Put(data, currency_field, generic_msrp)
                      ELSE data
         IN  GenericMsrpFieldLoop(after, generic_msrp, k + 1)

\* data.pop(key, None)
DictPop(dict, key) == [k \in (DOMAIN dict) \ {key} |-> dict[k]] @@ <<>>

validate_price_fields(data) ==
    LET normalized == NormalizeLoop(data, 1)
    IN  IF IsRaise(normalized) THEN normalized
        ELSE LET generic_msrp == DictGet(normalized, "MSRP")
             IN  IF generic_msrp # None
                 THEN DictPop(GenericMsrpFieldLoop(normalized, generic_msrp, 1), "MSRP")
                 ELSE normalized

(***************************************************************************)
(* BaseParser._clean_value, _parse_discontinued, _transform_row            *)
(***************************************************************************)
\* config/target_fields.py
DEFAULT_VALUES ==
    ("Discontinued" :> PyBool(FALSE)) @@ ("Long Description" :> Str(""))

\* the fields whose numbers _clean_value turns into text
TEXT_FIELDS ==
    {"SKU", "Short Description", "Long Description", "Model",
     "Category Group", "Category", "Manufacturer", "Manufacturer SKU",
     "Image URL", "Document Name", "Document URL", "Unit Of Measure"}
CLEANED_PRICE_FIELDS == {"Buy Cost", "Trade Price", "MSRP GBP", "MSRP USD", "MSRP EUR"}

\* the price branch of _clean_value for a string
CleanPriceText(text) ==
    LET kept == KeepPriceChars(text)
        resolved ==
            IF HasChar(kept, ",") /\ HasChar(kept, ".")
            THEN IF Index(kept, ",") > Index(kept, ".")
                 THEN Replace(kept, ",", "")
                 ELSE Replace(Replace(kept, ".", ""), ",", ".")
            ELSE IF HasChar(kept, ",") THEN Replace(kept, ",", ".")
            ELSE kept
        parsed == FloatOfStr(resolved)
    IN  IF parsed.kind = "raise" /\ parsed.exc = "ValueError" THEN None ELSE parsed

_clean_value(v, field) ==
    IF v = None THEN None
    ELSE IF v.kind \in {"int", "float", "bool"} /\ field \in TEXT_FIELDS
    THEN Str(Text(v))
    ELSE IF field \in CLEANED_PRICE_FIELDS /\ v.kind = "str" THEN CleanPriceText(v.s)
    ELSE IF v.kind = "str" THEN Str(Strip(v.s))
    ELSE v

DISCONTINUED_WORDS == {"yes", "y", "true", "t", "1", "discontinued", "obsolete"}

\* _parse_discontinued comparing the string as it is written
_parse_discontinued_CaseSensitive(v) ==
    CASE v.kind = "bool" -> v.b
      [] v.kind \in {"int", "float"} -> Truthy(v)
      [] v.kind = "str" -> Strip(v.s) \in DISCONTINUED_WORDS
      [] OTHER -> FALSE

_parse_discontinued(v) ==
    CASE v.kind = "bool" -> v.b
      [] v.kind \in {"int", "float"} -> Truthy(v)      \* value > 0
      [] v.kind = "str" -> Lower(Strip(v.s)) \in DISCONTINUED_WORDS
      [] OTHER -> FALSE

\* BaseParser._handle_special_fields
_handle_special_fields(transformed) ==
    IF "Discontinued" \in DOMAIN transformed
    THEN Put(transformed, "Discontinued",
             PyBool(_parse_discontinued(transformed["Discontinued"])))
    ELSE transformed

\* a record, or the exception that leaves _transform_row
_transform_row(row, mapping) ==
    LET mapped == {target \in DOMAIN mapping : mapping[target] \in DOMAIN row}
        transformed ==
            [field \in mapped \cup DOMAIN DEFAULT_VALUES |->
                IF field \in mapped
                THEN _clean_value(row[mapping[field]], field)
                ELSE DEFAULT_VALUES[field]] @@ EmptyDict
    IN  IF \E field \in mapped : transformed[field].kind = "raise"
        THEN CHOOSE e \in {transformed[field] : field \in mapped} : e.kind = "raise"
        ELSE _handle_special_fields(transformed)

(***************************************************************************)
(* The concrete parsers: CSVParser and ExcelParser (an .xlsx workbook).    *)
(***************************************************************************)
\* f"Column{i+1}" for the i-th column, counted from 1 here
ColumnName(i) == "Column" \o ToString(i)
ExtraColumnName(i) == "ExtraColumn" \o ToString(i)

\* the end of detect_headers: the cells of the header row as header texts
HeaderTexts(header_row) ==
    [i \in 1..Len(header_row) |->
        LET header == IF header_row[i] = None THEN ColumnName(i)
                      ELSE Strip(Text(header_row[i]))
        IN  IF header = "" THEN ColumnName(i) ELSE header] @@ <<>>

\* float(text) succeeds: a decimal number with an optional sign (the cells
\* of the model hold no exponent, underscore, "inf" or "nan")
IsFloatText(text) ==
    LET stripped == Strip(text)
        unsigned == IF stripped # "" /\ Head(stripped) \in {"+", "-"}
                    THEN Tail(stripped) ELSE stripped
    IN  /\ AllIn(unsigned, Digits \cup {"."})
        /\ FloatOfStr(unsigned).kind = "float"

\* CSVParser._is_numeric, ExcelParser._is_numeric
_is_numeric(v) ==
    CASE v.kind = "None" -> FALSE
      [] v.kind \in {"int", "float", "bool"} -> TRUE
      [] OTHER -> IsFloatText(Replace(Text(v), ",", "."))

Sum(f, S) ==
    LET RECURSIVE SumOver(_)
        SumOver(T) == IF T = {} THEN 0
                      ELSE LET x == CHOOSE y \in T : TRUE
                           IN  f[x] + SumOver(T \ {x})
    IN  SumOver(S)

header_keywords ==
    <<"id", "name", "price", "cost", "sku", "description", "category",
      "brand", "product", "model", "manufacturer", "image", "url">>

RECURSIVE JoinTexts(_, _)
\* ' '.join(str(cell).lower() for cell in row if cell), from the i-th cell on
JoinTexts(row, i) ==
    IF i > Len(row) THEN ""
    ELSE IF ~Truthy(row[i]) THEN JoinTexts(row, i + 1)
    ELSE LET rest == JoinTexts(row, i + 1)
             more == \E j \in (i + 1)..Len(row) : Truthy(row[j])
         IN  Lower(Text(row[i])) \o (IF more THEN " " ELSE "") \o rest

\* the score of a candidate header row in _find_best_header_row, over 10 * len(row):
\* score = string_ratio * 3 + keyword_matches * 2 + max(0, (30 - avg_len) / 10)
\*         - empty_ratio * 3
HeaderRowScore(row) ==
    LET n == Max(1, Len(row))
        cells == 1..Len(row)
        strings == Cardinality({i \in cells : ~_is_numeric(row[i])})
        row_text == JoinTexts(row, 1)
        keyword_matches ==
            Cardinality({k \in 1..Len(header_keywords) : Contains(row_text, header_keywords[k])})
        total_len == Sum([i \in cells |-> IF Truthy(row[i]) THEN Len(Text(row[i])) ELSE 0], cells)
        empty == Cardinality({i \in cells : ~Truthy(row[i])})
        short == IF total_len < 30 * n THEN 30 * n - total_len ELSE 0
    IN  <<30 * strings + 20 * keyword_matches * n + short - 30 * empty, 10 * n>>

\* not row or all(not cell for cell in row)
IsEmptyRow(row) == \A i \in 1..Len(row) : ~Truthy(row[i])

RECURSIVE BestHeaderRowLoop(_, _, _, _)
\* for i, row in enumerate(rows), from the i-th on; rows are counted from 1,
\* 0 is the code's -1
BestHeaderRowLoop(rows, i, best_score, best_row_index) ==
    IF i > Len(rows) THEN best_row_index
    ELSE IF IsEmptyRow(rows[i])
    THEN BestHeaderRowLoop(rows, i + 1, best_score, best_row_index)
    ELSE LET score == HeaderRowScore(rows[i])
         IN  IF RatLT(best_score, score)
             THEN BestHeaderRowLoop(rows, i + 1, score, i)
             ELSE BestHeaderRowLoop(rows, i + 1, best_score, best_row_index)

\* config/settings.py
MAX_HEADER_ROWS == 10

\* ExcelParser._find_best_header_row
_find_best_header_row(rows) == BestHeaderRowLoop(rows, 1, <<-1, 1>>, 0)

\* what a parser object holds; class is "CSVParser" or "ExcelParser"
NewParser(class, filename) ==
    [class |-> class, filename |-> filename, data |-> <<>>, headers |-> <<>>,
     field_mapping |-> EmptyDict, has_headers |-> TRUE, header_row_index |-> 0]

\* the rows that read_file keeps: _read_xlsx_file drops the rows without a
\* cell that is not None and not blank, CSVParser.read_file keeps every row
IsBlankRow(row) == \A i \in 1..Len(row) : row[i] = None \/ Strip(Text(row[i])) = ""
ReadRows(class, sheet) ==
    IF class = "ExcelParser" THEN SelectSeq(sheet, LAMBDA row : ~IsBlankRow(row))
    ELSE sheet

\* CSVParser.detect_headers, ExcelParser.detect_headers: the parser with
\* has_headers or header_row_index set, and the headers returned.
\* _check_has_headers returns True on every path.
detect_headers(parser) ==
    IF parser.data = <<>> THEN [parser |-> parser, headers |-> <<>>]
    ELSE IF parser.class = "CSVParser"
    THEN [parser |-> [parser EXCEPT !.has_headers = TRUE],
          headers |-> HeaderTexts(parser.data[1])]
    ELSE LET header_candidates ==
                 SubSeq(parser.data, 1, Min(MAX_HEADER_ROWS, Len(parser.data)))
             best_row == _find_best_header_row(header_candidates)
             \* rows are counted from 0 in the code
             header_row_index == IF best_row = 0 THEN 0 ELSE best_row - 1
         IN  [parser |-> [parser EXCEPT !.header_row_index = header_row_index],
              headers |-> HeaderTexts(parser.data[header_row_index + 1])]

\* the dictionary of one data row: the headers over the cells, the cells
\* beyond the headers under ExtraColumn names; a later cell replaces an
\* earlier one of the same header
RowKey(row_headers, i) ==
    IF i <= Len(row_headers) THEN row_headers[i] ELSE ExtraColumnName(i)
RowDict(row_headers, row) ==
    [key \in {RowKey(row_headers, i) : i \in 1..Len(row)} |->
        LET cells == {i \in 1..Len(row) : RowKey(row_headers, i) = key}
        IN  row[CHOOSE i \in cells : \A j \in cells : j <= i]] @@ EmptyDict

RECURSIVE IterateLoop(_, _, _)
IterateLoop(row_headers, data, row_index) ==
    IF row_index > Len(data) THEN <<>>
    ELSE IF IsEmptyRow(data[row_index])
    THEN IterateLoop(row_headers, data, row_index + 1)
    ELSE <<RowDict(row_headers, data[row_index])>>
         \o IterateLoop(row_headers, data, row_index + 1)

\* CSVParser._iterate_data_rows, ExcelParser._iterate_data_rows: the rows
\* the generator yields (rows of data are counted from 1 here)
_iterate_data_rows(parser) ==
    IF parser.data = <<>> THEN <<>>
    ELSE IF parser.class = "CSVParser"
    THEN IterateLoop(parser.headers, parser.data, 2)      \* has_headers is True
    ELSE IterateLoop(parser.headers, parser.data, parser.header_row_index + 2)

(***************************************************************************)
(* utils/manufacturer_detector.py: ManufacturerDetector.detect_from_filename*)
(***************************************************************************)
\* config/settings.py
COMMON_MANUFACTURERS ==
    {"apple", "samsung", "sony", "lg", "dell", "hp", "lenovo", "asus",
     "acer", "toshiba", "microsoft", "philips", "panasonic", "bosch",
     "siemens", "canon", "nikon", "intel", "amd", "nvidia"}

\* os.path.basename(filename), os.path.splitext(...)[0]
Basename(filename) == LastSegment(filename, "/")
SplitExtRoot(name) ==
    IF HasChar(name, ".") /\ RIndex(name, ".") > 1
    THEN SubSeq(name, 1, RIndex(name, ".") - 1)
    ELSE name

\* str.title() of a word of lower-case letters
LowerToUpper == [c \in {UpperToLower[u] : u \in DOMAIN UpperToLower} |->
                    CHOOSE u \in DOMAIN UpperToLower : UpperToLower[u] = c] @@ <<>>
Title(word) ==
    IF word # "" /\ Head(word) \in DOMAIN LowerToUpper
    THEN LowerToUpper[Head(word)] \o Tail(word) ELSE word

\* re.sub(r'[_\-\.\(\)]', ' ', basename)
FilenameSeparators == {"_", "-", ".", "(", ")"}

\* the names detect_from_filename can return: self.manufacturers is a set of
\* strings, whose order of iteration differs from one run to the next, and
\* the first manufacturer that stands as a word in the name is returned; no
\* name has two words, so the second loop returns nothing.  {None} when no
\* manufacturer stands in the name.
detect_from_filename(filename) ==
    IF filename = "" THEN {None}
    ELSE LET normalized == MapChars(Lower(SplitExtRoot(Basename(filename))),
                                    FilenameSeparators, FALSE)
             words == Range(Split(normalized))
             found == COMMON_MANUFACTURERS \cap words
         IN  IF found = {} THEN {None} ELSE {Str(Title(m)) : m \in found}

(***************************************************************************)
(* CSVParser.transform_data and ExcelParser.transform_data after           *)
(* super().transform_data()                                                *)
(***************************************************************************)
\* any(row.get('Manufacturer') for row in transformed_data)
HasManufacturer(transformed) ==
    \E i \in 1..Len(transformed) : Truthy(DictGet(transformed[i], "Manufacturer"))

\* for row in transformed_data: row['Manufacturer'] = manufacturer
SetManufacturer(transformed, manufacturer) ==
    IF manufacturer = None THEN transformed
    ELSE [i \in 1..Len(transformed) |->
             Put(transformed[i], "Manufacturer", manufacturer)] @@ <<>>

\* FillPrices without the condition: every extracted price is stored
FillPrices_Always(row, prices) ==
    [field \in DOMAIN row \cup DOMAIN prices |->
        IF field \in DOMAIN prices THEN prices[field] ELSE row[field]] @@ EmptyDict

\* for price_field, price_value in prices.items(): set if not already present
FillPrices(row, prices) ==
    [field \in DOMAIN row \cup DOMAIN prices |->
        IF field \in DOMAIN prices /\ (field \notin DOMAIN row \/ row[field] = None)
        THEN prices[field]
        ELSE row[field]] @@ EmptyDict

DESCRIPTION_FIELDS == <<"Long Description", "Short Description">>

RECURSIVE MineRow(_, _, _)
\* for field in ['Long Description', 'Short Description'], from the k-th on;
\* ExcelParser hands str(row[field]) to the extraction, CSVParser row[field]
MineRow(class, row, k) ==
    IF k > Len(DESCRIPTION_FIELDS) THEN row
    ELSE LET field == DESCRIPTION_FIELDS[k]
         IN  IF field \in DOMAIN row /\ Truthy(row[field])
             THEN LET description == IF class = "ExcelParser"
                                     THEN Str(Text(row[field])) ELSE row[field]
                  IN  MineRow(class,
                              FillPrices(row, extract_prices_from_description(description)),
                              k + 1)
             ELSE MineRow(class, row, k + 1)

\* CSVParser._process_row_based_prices, ExcelParser._process_row_based_prices
_process_row_based_prices(class, transformed) ==
    [i \in 1..Len(transformed) |-> MineRow(class, transformed[i], 1)] @@ <<>>

RECURSIVE ValidateLoop(_, _)
\* for row in transformed_data: row = PriceUtils.validate_price_fields(row),
\* from the i-th row on: the rows, or the exception that leaves the loop
ValidateLoop(transformed, i) ==
    IF i > Len(transformed) THEN PyList(transformed)
    ELSE LET validated == validate_price_fields(transformed[i])
         IN  IF IsRaise(validated) THEN validated
             ELSE ValidateLoop([transformed EXCEPT ![i] = validated], i + 1)

(***************************************************************************)
(* The state of the program.                                               *)
(***************************************************************************)
VARIABLES
    pc,               \* the position of the operation in progress
    value,            \* normalize_price: the argument
    price,            \* normalize_price: the outcome (a value or an exception)
    currency_code,    \* detect_currency: the outcome (a currency code or None)
    row_prices,       \* extract_prices_from_row_format: the outcome (a dict)
    self,             \* map_columns: the ColumnMapper instance
    headers,          \* map_columns: the source headers
    sample_data,      \* map_columns: the sample rows, or None
    cleaned_headers,  \* map_columns: the cleaned headers
    header_info,      \* map_columns: what _extract_header_info found
    mapping_results,  \* map_columns: target field -> <<header, confidence>>
    field_mapping,    \* map_columns: the outcome (a mapping or an exception)
    call,             \* which call of map_columns on these inputs this is
    previous,         \* the outcome of the call before
    file,             \* parse: the file on disk
    parser,           \* parse: the parser object
    step,             \* parse: the position in parse and transform_data
    rows,             \* transform_data: the rows _iterate_data_rows yields
    row_index,        \* transform_data: the row the loop is at
    transformed_data, \* transform_data: the records so far
    manufacturer,     \* transform_data: the manufacturer from the file name
    returned,         \* transform_data: the outcome (records or an exception)
    result,           \* parse: the outcome (records or an exception)
    batch,            \* CatalogParser: the position in batch_process
    directory,        \* batch_process: the directory and the files os.walk visits
    file_index,       \* batch_process: the file the loop is at
    batch_results,    \* batch_process: results, the counters and file_results
    target,           \* parse_file: the file of the filename argument
    file_result       \* parse_file: the outcome (a dict or an exception)

priceVars == <<value, price, currency_code, row_prices>>
mapVars == <<self, headers, sample_data, cleaned_headers, header_info,
             mapping_results, field_mapping, call, previous>>
parseVars == <<file, parser, step, rows, row_index, transformed_data,
               manufacturer, returned, result>>
catalogVars == <<batch, directory, file_index, batch_results, target, file_result>>
vars == <<pc, priceVars, mapVars, parseVars, catalogVars>>

(***************************************************************************)
(* The column mapper as a state machine: map_columns on a list of headers  *)
(* and optional sample rows, pass by pass, then a second call on the same  *)
(* inputs by the same ColumnMapper or by a new one.                        *)
(***************************************************************************)
NoResult == [kind |-> "pending"]

\* a threshold that differs from one instance to the next
ColumnMapper_OwnThreshold(id) ==
    [id |-> id,
     confidence_threshold |-> IF id = 1 THEN CONFIDENCE_THRESHOLD
                              ELSE Hundredths(90)]

\* ColumnMapper.__init__
ColumnMapper(id) == [id |-> id, confidence_threshold |-> CONFIDENCE_THRESHOLD]

\* the variables of map_columns while no call is in progress
MapIdle ==
    /\ self = ColumnMapper(1)
    /\ headers = <<>>
    /\ sample_data = None
    /\ cleaned_headers = <<>>
    /\ header_info = <<>>
    /\ mapping_results = EmptyResults
    /\ field_mapping = NoResult
    /\ call = 1
    /\ previous = NoResult

PriceIdle ==
    /\ value = None
    /\ price = NoResult
    /\ currency_code = NoResult
    /\ row_prices = NoResult

\* the variables of CatalogParser while none of its methods is at work
CatalogIdle ==
    /\ batch = "idle"
    /\ directory = None
    /\ file_index = 0
    /\ batch_results = NoResult
    /\ target = None
    /\ file_result = NoResult

\* the variables of parse while no parser is at work
ParseIdle ==
    /\ file = None
    /\ parser = None
    /\ step = "idle"
    /\ rows = <<>>
    /\ row_index = 0
    /\ transformed_data = <<>>
    /\ manufacturer = None
    /\ returned = NoResult
    /\ result = NoResult

\* sample rows: none, an empty list, three rows of a SKU-like, a sterling and
\* a plain price column, three rows (the last one short) of a sterling price
\* and a text column
SampleChoices ==
    { None,
      PyList(<<>>),
      PyList(<< <<Str("AB-1"), Str((PoundSign \o "10.00")), Str("12,50")>>,
                <<Str("AB-2"), Str((PoundSign \o "11.00")), Str("13,50")>>,
                <<Str("AB-3"), Str((PoundSign \o "12.00")), Str("")>> >>),
      PyList(<< <<Str((PoundSign \o "10.00")), Str("text")>>,
                <<Str((PoundSign \o "11.00")), PyInt("7")>>,
                <<Str("GBP 12")>> >>) }

InitMap ==
    /\ pc = "map_columns"
    /\ self = ColumnMapper(1)
    /\ headers \in HeaderLists
    /\ sample_data \in SampleChoices
    /\ cleaned_headers = <<>>
    /\ header_info = <<>>
    /\ mapping_results = EmptyResults
    /\ field_mapping = NoResult
    /\ call = 1
    /\ previous = NoResult
    /\ PriceIdle
    /\ ParseIdle
    /\ CatalogIdle

\* mapping_results = {} at the start of a call, whatever an earlier call left
NewResults(left) == EmptyResults

\* map_columns, up to the first pass
MapBegin ==
    /\ pc = "map_columns"
    /\ cleaned_headers' = CleanHeaders(headers)
    /\ header_info' = HeaderInfo(headers, cleaned_headers')
    /\ mapping_results' = NewResults(mapping_results)
    /\ pc' = "pass1"
    /\ UNCHANGED <<self, headers, sample_data, field_mapping, call, previous, priceVars, catalogVars, parseVars>>

PassDone(results, next) ==
    /\ mapping_results' = results
    /\ pc' = next
    /\ UNCHANGED <<self, headers, sample_data, cleaned_headers, header_info,
                   field_mapping, call, previous, priceVars, catalogVars, parseVars>>

\* an exception leaves map_columns
MapRaise(exception) ==
    /\ field_mapping' = exception
    /\ pc' = "raised"
    /\ UNCHANGED <<self, headers, sample_data, cleaned_headers, header_info,
                   mapping_results, call, previous, priceVars, catalogVars, parseVars>>

Pass1 ==
    /\ pc = "pass1"
    /\ PassDone(_apply_pattern_matching(cleaned_headers, headers, mapping_results,
                                        self.confidence_threshold), "pass2")

Pass2 ==
    /\ pc = "pass2"
    /\ PassDone(_handle_generic_msrp(cleaned_headers, headers, header_info,
                                     mapping_results), "pass3")

Pass3 ==
    /\ pc = "pass3"
    /\ IF HasSampleData(sample_data)
       THEN PassDone(_apply_content_based_detection(headers, sample_data.rows,
                                                    mapping_results), "pass4")
       ELSE PassDone(mapping_results, "pass4")

Pass4 ==
    /\ pc = "pass4"
    /\ LET results == _apply_contextual_detection(headers, cleaned_headers, mapping_results)
       IN  IF IsRaise(results) THEN MapRaise(results) ELSE PassDone(results, "pass5")

Pass5 ==
    /\ pc = "pass5"
    /\ PassDone(_apply_fuzzy_matching(cleaned_headers, headers, mapping_results,
                                      self.confidence_threshold), "build")

\* the final mapping is built and returned
MapReturn ==
    /\ pc = "build"
    /\ field_mapping' = FieldMapping(mapping_results)
    /\ pc' = "returned"
    /\ UNCHANGED <<self, headers, sample_data, cleaned_headers, header_info,
                   mapping_results, call, previous, priceVars, catalogVars, parseVars>>

\* the caller calls map_columns again with the same arguments, on the same
\* instance or on a new one
MapAgain ==
    /\ pc = "returned"
    /\ call = 1
    /\ self' \in {self, ColumnMapper(2)}
    /\ previous' = field_mapping
    /\ field_mapping' = NoResult
    /\ call' = 2
    /\ pc' = "map_columns"
    /\ UNCHANGED <<headers, sample_data, cleaned_headers, header_info,
                   mapping_results, priceVars, catalogVars, parseVars>>

NextMap == MapBegin \/ Pass1 \/ Pass2 \/ Pass3 \/ Pass4 \/ Pass5 \/ MapReturn \/ MapAgain

SpecMap == InitMap /\ [][NextMap]_vars

(***************************************************************************)
(* Claims about the column mapper, checked under SpecMap.                  *)
(***************************************************************************)
IsMapping(m) == ~IsRaise(m)

(* C1: in the mapping map_columns returns, with or without sample rows, no *)
(* source header is the value of two different target fields.              *)
C1_Exclusive ==
    pc = "returned" =>
        \A f \in DOMAIN field_mapping \cap Range(TARGET_FIELDS) :
            \A g \in DOMAIN field_mapping \cap Range(TARGET_FIELDS) :
                f # g => field_mapping[f] # field_mapping[g]

(* C2: after every pass, the content-based pass, the contextual pass and   *)
(* the Buy Cost inference included, every entry of the results has a       *)
(* confidence of at least 0.7 and at most 1.0.                             *)
C2_ConfidenceBounds ==
    \A k \in DOMAIN mapping_results :
        /\ RatLE(CONFIDENCE_THRESHOLD, mapping_results[k][2])
        /\ RatLE(mapping_results[k][2], RatOne)

\* the Buy Cost inference has written an entry at exactly 0.7, next to an
\* entry of the content-based pass
C2_Witness ==
    /\ pc = "pass5"
    /\ "Buy Cost" \in DOMAIN mapping_results
    /\ mapping_results["Buy Cost"][2] = Hundredths(70)
    /\ \E k \in DOMAIN mapping_results : mapping_results[k][2] = Hundredths(85)

C4_EmptyHeaders ==
    headers = <<>> =>
        /\ pc # "raised"
        /\ DOMAIN mapping_results = {}
        /\ pc = "returned" => (IsMapping(field_mapping) /\ DOMAIN field_mapping = {})

C4_Witness ==
    /\ headers = <<>>
    /\ pc = "returned"
    /\ HasSampleData(sample_data)
    /\ DOMAIN field_mapping = {}

\* the results of the call in progress as Pass 1 and Pass 2 leave them
AfterPass2 ==
    _handle_generic_msrp(cleaned_headers, headers, header_info,
        _apply_pattern_matching(cleaned_headers, headers, EmptyResults,
                                self.confidence_threshold))

\* a cleaned header with a cost-like term and neither "retail" nor "list"
CostLike(cleaned_header) ==
    /\ \E t \in 1..Len(COST_TERMS) : Contains(cleaned_header, COST_TERMS[t])
    /\ ~Contains(cleaned_header, "retail")
    /\ ~Contains(cleaned_header, "list")

\* the columns of unmapped cost-like headers within 3 columns of the header
\* of some mapped MSRP-family field
CostCandidates(results) ==
    {j \in 1..Len(headers) :
        /\ headers[j] \notin MappedHeaders(results)
        /\ CostLike(cleaned_headers[j])
        /\ \E k \in 1..Len(MSRP_FAMILY) :
              /\ MSRP_FAMILY[k] \in DOMAIN results
              /\ LET msrp_index == ListIndex(headers, results[MSRP_FAMILY[k]][1])
                 IN  j # msrp_index /\ j - msrp_index \in -3..3}

(* C15: when Pass 1 and Pass 2 leave Buy Cost unmapped, map an MSRP-family *)
(* field and leave unmapped a cost-like header within 3 columns of that    *)
(* MSRP header, the returned mapping maps Buy Cost to such a header; for   *)
(* SKU, Description, MSRP USD, Dealer Cost it maps Buy Cost to Dealer Cost.*)
C15_BuyCostInferred ==
    pc = "returned" =>
        /\ ("Buy Cost" \notin DOMAIN AfterPass2 /\ CostCandidates(AfterPass2) # {})
           => /\ "Buy Cost" \in DOMAIN field_mapping
              /\ \E j \in CostCandidates(AfterPass2) :
                    field_mapping["Buy Cost"] = headers[j]
        /\ headers = <<"SKU", "Description", "MSRP USD", "Dealer Cost">>
           => /\ "Buy Cost" \in DOMAIN field_mapping
              /\ field_mapping["Buy Cost"] = "Dealer Cost"

\* utils/ml_model.py: the corpus the fallback classifier is fitted on when the
\* module is imported; no module of the program imports it
get_fallback_model ==
    [headers |-> <<"Product Name", "Retail GBP", "Dealer Price", "SKU",
                   "MFR Part Number", "Short Description", "Buy Cost", "MSRP",
                   "Item Title", "Cost to Dealer", "Trade Cost", "Retail Price USD">>,
     labels |-> <<"Short Description", "MSRP GBP", "Trade Price", "SKU",
                  "Manufacturer SKU", "Short Description", "Buy Cost", "MSRP USD",
                  "Short Description", "Buy Cost", "Trade Price", "MSRP USD">>]

(* C16: map_columns runs a sixth and last pass, the fallback classifier on *)
(* the headers unclaimed after passes 1-5: the final mapping is built only *)
(* from the results that this sixth pass leaves.                           *)
C16_SixthPassRuns ==
    [][pc' = "build" => pc = "pass6"]_vars

(* C21: a target field that has an entry in the results at the end of a    *)
(* pass keeps that source header and that confidence through every later   *)
(* pass: passes 2-5 only add entries for fields unmapped at their start.   *)
C21_LaterPassesOnlyAdd ==
    [][(pc = "pass2" \/ pc = "pass3" \/ pc = "pass4" \/ pc = "pass5")
       => (\A target_field \in DOMAIN mapping_results :
              /\ target_field \in DOMAIN mapping_results'
              /\ mapping_results[target_field] = mapping_results'[target_field])
      ]_vars

\* the fuzzy pass has added an entry to those of Pass 1, Pass 2 and Pass 4
C21_Witness ==
    /\ pc = "build"
    /\ headers = <<"SKU", "MSRP", "Retail Cost", "Dealer">>
    /\ mapping_results["SKU"] = <<"SKU", RatOne>>
    /\ mapping_results["MSRP"] = <<"MSRP", Hundredths(80)>>
    /\ mapping_results["Buy Cost"][1] = "Retail Cost"
    /\ "MSRP GBP" \in DOMAIN mapping_results

\* the fields that the results map to the header
FieldsOf(results, header) ==
    {target_field \in DOMAIN results : results[target_field][1] = header}

\* the headers that some field holds with a confidence above 0.9
Locked(results) ==
    {results[target_field][1] : target_field \in
        {f \in DOMAIN results : RatLT(Hundredths(90), results[f][2])}}

(* C22: a source header mapped to a target field with a confidence above   *)
(* 0.9 is assigned to no second target field: not by a field that the same *)
(* pass treats later (Pass 1 and Pass 5 treat the fields in the order of   *)
(* TARGET_FIELDS), and not by a later pass.                                *)
C22_LockedHeaderStaysExclusive ==
    [][(pc = "pass1" \/ pc = "pass2" \/ pc = "pass3" \/ pc = "pass4" \/ pc = "pass5")
          => /\ \A f \in DOMAIN mapping_results' \ DOMAIN mapping_results :
                \A g \in DOMAIN mapping_results' \ DOMAIN mapping_results :
                   (/\ ListIndex(TARGET_FIELDS, f) < ListIndex(TARGET_FIELDS, g)
                    /\ RatLT(Hundredths(90), mapping_results'[f][2]))
                   => mapping_results'[g][1] # mapping_results'[f][1]
             /\ \A header \in Locked(mapping_results) :
                   FieldsOf(mapping_results', header) = FieldsOf(mapping_results, header)
         ]_vars

\* "Dealer Cost" is held by Buy Cost at 1.0; it also matches a pattern of
\* Trade Price, a later field, which all the passes have left without it
C22_Witness ==
    /\ pc = "build"
    /\ headers = <<"SKU", "Description", "MSRP USD", "Dealer Cost">>
    /\ mapping_results["Buy Cost"] = <<"Dealer Cost", RatOne>>
    /\ \E k \in 1..Len(FIELD_PATTERNS["Trade Price"]) :
          ReMatch(FIELD_PATTERNS["Trade Price"][k], "dealer cost")
    /\ FieldsOf(mapping_results, "Dealer Cost") = {"Buy Cost"}

(* C28: the cleaned form of a header is in lower case, holds no            *)
(* punctuation and no two spaces in a row, and holds every currency symbol *)
(* of the original header: the pound sign, the dollar sign and the euro    *)
(* sign.                                                                   *)
C28_CleanedHeaderKeepsCurrency ==
    \A i \in 1..Len(cleaned_headers) :
        /\ cleaned_headers[i] = Lower(cleaned_headers[i])
        /\ \A k \in 1..Len(cleaned_headers[i]) :
              Char(cleaned_headers[i], k) \in WordChars \cup Whitespace \cup CurrencySymbols
        /\ ~Contains(cleaned_headers[i], "  ")
        /\ \A symbol \in CurrencySymbols :
              Contains(headers[i], symbol) => Contains(cleaned_headers[i], symbol)

\* the index of the first pattern of the field that the cleaned header
\* matches in full; 0 when there is none
FirstPattern(target_field, cleaned_header) ==
    LET patterns == FIELD_PATTERNS[target_field]
        matching == {k \in 1..Len(patterns) : ReMatch(patterns[k], cleaned_header)}
    IN  IF matching = {} THEN 0
        ELSE CHOOSE k \in matching : \A l \in matching : k <= l

\* the columns that fully match a pattern of the field and that no field
\* treated before it holds above 0.9
UnclaimedMatches(target_field, results) ==
    {i \in 1..Len(headers) :
        /\ FirstPattern(target_field, cleaned_headers[i]) > 0
        /\ \A g \in DOMAIN results :
              (/\ ListIndex(TARGET_FIELDS, g) < ListIndex(TARGET_FIELDS, target_field)
               /\ RatLT(Hundredths(90), results[g][2]))
              => results[g][1] # headers[i]}

(* C23: at the end of Pass 1, a target field whose patterns are fully      *)
(* matched by several unclaimed headers, through different patterns, is    *)
(* mapped to the header matched by the earliest of those patterns,         *)
(* whatever the order of the columns.                                      *)
C23_EarliestPatternWins ==
    pc = "pass2" =>
        \A target_field \in Range(TARGET_FIELDS) :
            LET matches == UnclaimedMatches(target_field, mapping_results)
            IN  \A i \in matches : \A j \in matches :
                    FirstPattern(target_field, cleaned_headers[i])
                        < FirstPattern(target_field, cleaned_headers[j])
                    => /\ target_field \in DOMAIN mapping_results
                       /\ mapping_results[target_field][1] # headers[j]

\* the field that Pass 2 is to give the generic header of column i: the
\* currency field of its indicator, the bucket when it has none
GenericTarget(i) ==
    IF header_info[i].has_currency THEN "MSRP " \o header_info[i].currency ELSE "MSRP"

\* the first of the still-unmapped generic headers that is to get the field
FirstGenericFor(target_field) ==
    LET generic == GenericMsrpHeaders(cleaned_headers, headers, mapping_results)
        wanting == {g \in 1..Len(generic) : GenericTarget(generic[g]) = target_field}
    IN  IF wanting = {} THEN 0
        ELSE generic[CHOOSE g \in wanting : \A l \in wanting : g <= l]

(* C24: Pass 2 gives every still-unmapped header that matches a generic    *)
(* MSRP pattern the field MSRP <currency> with confidence 0.9 when the     *)
(* original header holds a currency indicator and that field is a target   *)
(* field still unmapped, the bucket MSRP with confidence 0.8 when it holds *)
(* no indicator and the bucket is still empty, and assigns nothing else.   *)
C24_GenericMsrpResolution ==
    [][pc = "pass2"
          => LET fields == {f \in (Range(TARGET_FIELDS) \cup {"MSRP"}) \ DOMAIN mapping_results :
                               FirstGenericFor(f) > 0}
             IN  /\ DOMAIN mapping_results' = DOMAIN mapping_results \cup fields
                 /\ \A f \in DOMAIN mapping_results : mapping_results'[f] = mapping_results[f]
                 /\ \A f \in fields :
                       /\ mapping_results'[f][1] = headers[FirstGenericFor(f)]
                       /\ IF f = "MSRP"
                          THEN mapping_results'[f][2] = Hundredths(80)
                          ELSE mapping_results'[f][2] = Hundredths(90)
         ]_vars

\* the fields that the relationship loop of Pass 4 maps to a nearby header
ContextualMatches ==
    LET related == RelationshipLoop(1, headers, cleaned_headers, mapping_results)
    IN  IF IsRaise(related) THEN {}
        ELSE DOMAIN related \ DOMAIN mapping_results

(* C25: a contextual match of Pass 4 has confidence 0.6 when exactly one   *)
(* keyword of the related field occurs in the nearby header, 0.1 more for  *)
(* each further keyword, and never more than 0.85.                         *)
C25_ContextualConfidence ==
    [][pc = "pass4"
          => \A related_field \in ContextualMatches :
                LET nearby_header == mapping_results'[related_field][1]
                    nearby_cleaned == cleaned_headers[ListIndex(headers, nearby_header)]
                    keyword_matches == KeywordMatches(Split(Lower(related_field)),
                                                      nearby_cleaned)
                    expected == RatMin(Hundredths(60 + 10 * (keyword_matches - 1)),
                                       Hundredths(85))
                IN  /\ keyword_matches >= 1
                    /\ RatLE(expected, mapping_results'[related_field][2])
                    /\ RatLE(mapping_results'[related_field][2], expected)
         ]_vars

(***************************************************************************)
(* BaseParser.parse of a CSVParser or an ExcelParser, step by step:        *)
(* read_file, detect_headers, map_fields (which runs map_columns, pass by  *)
(* pass, without sample rows) and transform_data.                          *)
(***************************************************************************)
\* 10**400, an int beyond the range of a double
Zeros10 == "0000000000"
Zeros100 == Zeros10 \o Zeros10 \o Zeros10 \o Zeros10 \o Zeros10
            \o Zeros10 \o Zeros10 \o Zeros10 \o Zeros10 \o Zeros10
HugeIntDigits == "1" \o Zeros100 \o Zeros100 \o Zeros100 \o Zeros100

\* the cells of a CSV file are strings; the last row is empty
CsvRows ==
    { <<Str("Widget"), Str(PoundSign \o "10.00")>>,
      <<Str("Bolt, trade price 12,50 GBP"), Str(" YES ")>>,
      <<Str("Nut, cost 3, trade price 4"), Str("5.00")>>,
      <<Str(""), Str("")>> }
\* the cells of a workbook are strings, numbers or None
XlsxRows ==
    { <<Str("Widget"), Str(PoundSign \o "10.00")>>,
      <<Str("Bolt, trade price 12,50 GBP"), None>>,
      <<Str("Nut, cost 3, trade price 4"), Str("5.00")>>,
      <<PyInt("7"), PyInt(HugeIntDigits)>> }

Classes == {"CSVParser", "ExcelParser"}
Extension(class) == IF class = "CSVParser" THEN ".csv" ELSE ".xlsx"
Filenames(class) ==
    {"in/catalog" \o Extension(class), "in/sony_lg-2024" \o Extension(class)}
HeaderRow(sheet_headers) == [i \in 1..Len(sheet_headers) |-> Str(sheet_headers[i])] @@ <<>>
Sheets(class) ==
    {<<>>} \cup
    {<<HeaderRow(h)>> \o data_rows :
        h \in SheetHeaders,
        data_rows \in ListsUpTo(IF class = "CSVParser" THEN CsvRows ELSE XlsxRows,
                                MaxDataRows)}
Files ==
    UNION {
        {[class |-> class, filename |-> name, readable |-> TRUE, sheet |-> sheet] :
            name \in Filenames(class), sheet \in Sheets(class)}
        \cup {[class |-> class, filename |-> "in/damaged" \o Extension(class),
               readable |-> FALSE, sheet |-> <<>>]} :
        class \in Classes}

InitParse ==
    /\ file \in Files
    /\ parser = NewParser(file.class, file.filename)
    /\ step = "read_file"
    /\ rows = <<>>
    /\ row_index = 0
    /\ transformed_data = <<>>
    /\ manufacturer = None
    /\ returned = NoResult
    /\ result = NoResult
    /\ pc = "idle"
    /\ MapIdle
    /\ PriceIdle
    /\ CatalogIdle

\* an exception leaves a step of parse before transform_data
ParseRaise(exception) ==
    /\ result' = Raise(exception)
    /\ step' = "except"

\* self.read_file(): CSVParser.read_file raises FileError for a file without
\* rows, both raise FileError for a file they cannot read
ReadFile ==
    /\ step = "read_file"
    /\ IF ~file.readable \/ (file.class = "CSVParser" /\ file.sheet = <<>>)
       THEN ParseRaise("FileError") /\ UNCHANGED parser
       ELSE /\ parser' = [parser EXCEPT !.data = ReadRows(file.class, file.sheet)]
            /\ step' = "detect_headers"
            /\ UNCHANGED result
    /\ UNCHANGED <<file, rows, row_index, transformed_data, manufacturer, returned,
                   pc, priceVars, catalogVars, mapVars>>

\* self.headers = self.detect_headers()
DetectHeaders ==
    /\ step = "detect_headers"
    /\ LET detected == detect_headers(parser)
       IN  parser' = [detected.parser EXCEPT !.headers = detected.headers]
    /\ step' = "map_fields"
    /\ UNCHANGED <<file, rows, row_index, transformed_data, manufacturer, returned,
                   result, pc, priceVars, catalogVars, mapVars>>

\* map_fields up to its call of self.column_mapper.map_columns(self.headers)
MapFieldsCall(next) ==
    LET detected == IF parser.headers = <<>> THEN detect_headers(parser)
                    ELSE [parser |-> parser, headers |-> parser.headers]
    IN  /\ parser' = [detected.parser EXCEPT !.headers = detected.headers]
        /\ IF detected.headers = <<>>
           THEN /\ ParseRaise("ParserError")
                /\ UNCHANGED <<pc, mapVars>>
           ELSE /\ headers' = detected.headers
                /\ sample_data' = None
                /\ field_mapping' = NoResult
                /\ pc' = "map_columns"
                /\ step' = next
                /\ UNCHANGED <<result, self, cleaned_headers, header_info,
                               mapping_results, call, previous>>
        /\ UNCHANGED <<file, rows, row_index, transformed_data, manufacturer,
                       returned, priceVars, catalogVars>>

\* self.field_mapping = self.map_fields()
MapFields ==
    /\ step = "map_fields"
    /\ MapFieldsCall("mapping")

\* map_columns has returned: the end of map_fields
MapFieldsReturn ==
    /\ step \in {"mapping", "mapping_again"}
    /\ pc = "returned"
    /\ parser' = [parser EXCEPT !.field_mapping = field_mapping]
    /\ pc' = "idle"
    /\ step' = IF step = "mapping" THEN "transform_data" ELSE "transform_rows"
    /\ UNCHANGED <<file, rows, row_index, transformed_data, manufacturer, returned,
                   result, priceVars, catalogVars, mapVars>>

\* BaseParser.transform_data: if not self.field_mapping: self.map_fields()
TransformData ==
    /\ step = "transform_data"
    /\ IF DOMAIN parser.field_mapping = {}
       THEN MapFieldsCall("mapping_again")
       ELSE /\ step' = "transform_rows"
            /\ UNCHANGED <<file, parser, rows, row_index, transformed_data,
                           manufacturer, returned, result, pc, priceVars, catalogVars, mapVars>>

\* BaseParser.transform_data: no data, or the start of the loop over the rows
BeginRows ==
    /\ step = "transform_rows"
    /\ IF parser.data = <<>>
       THEN /\ returned' = PyList(<<>>)
            /\ step' = "transformed"
            /\ UNCHANGED <<rows, row_index, transformed_data>>
       ELSE /\ rows' = _iterate_data_rows(parser)
            /\ row_index' = 1
            /\ transformed_data' = <<>>
            /\ step' = "transform_row"
            /\ UNCHANGED returned
    /\ UNCHANGED <<file, parser, manufacturer, result, pc, priceVars, catalogVars, mapVars>>

\* one turn of the loop: try: transformed_data.append(self._transform_row(row))
\* except Exception: log_error(...)
TransformRow ==
    /\ step = "transform_row"
    /\ row_index <= Len(rows)
    /\ LET transformed_row == _transform_row(rows[row_index], parser.field_mapping)
       IN  transformed_data' = IF IsRaise(transformed_row) THEN transformed_data
                               ELSE Append(transformed_data, transformed_row)
    /\ row_index' = row_index + 1
    /\ UNCHANGED <<file, parser, step, rows, manufacturer, returned, result,
                   pc, priceVars, catalogVars, mapVars>>

\* super().transform_data() has returned: if not transformed_data: return []
BaseReturn ==
    /\ step = "transform_row"
    /\ row_index > Len(rows)
    /\ IF transformed_data = <<>>
       THEN returned' = PyList(<<>>) /\ step' = "transformed"
       ELSE step' = "fill_manufacturer" /\ UNCHANGED returned
    /\ UNCHANGED <<file, parser, rows, row_index, transformed_data, manufacturer,
                   result, pc, priceVars, catalogVars, mapVars>>

\* the manufacturer from the name of the file when no row has one
FillManufacturer ==
    /\ step = "fill_manufacturer"
    /\ IF HasManufacturer(transformed_data)
       THEN UNCHANGED <<manufacturer, transformed_data>>
       ELSE \E detected \in detect_from_filename(parser.filename) :
               /\ manufacturer' = detected
               /\ transformed_data' = SetManufacturer(transformed_data, detected)
    /\ step' = IF parser.class = "ExcelParser" THEN "fix_excel_dates"
               ELSE "process_row_based_prices"
    /\ UNCHANGED <<file, parser, rows, row_index, returned, result,
                   pc, priceVars, catalogVars, mapVars>>

\* ExcelParser._fix_excel_dates: returns at once for an .xlsx workbook
FixExcelDates ==
    /\ step = "fix_excel_dates"
    /\ step' = "process_row_based_prices"
    /\ UNCHANGED <<file, parser, rows, row_index, transformed_data, manufacturer,
                   returned, result, pc, priceVars, catalogVars, mapVars>>

ProcessRowBasedPrices ==
    /\ step = "process_row_based_prices"
    /\ transformed_data' = _process_row_based_prices(parser.class, transformed_data)
    /\ step' = "validate_price_fields"
    /\ UNCHANGED <<file, parser, rows, row_index, manufacturer, returned, result,
                   pc, priceVars, catalogVars, mapVars>>

\* the loop over validate_price_fields and the return of transform_data; an
\* exception of validate_price_fields leaves transform_data
ValidatePriceFields ==
    /\ step = "validate_price_fields"
    /\ returned' = ValidateLoop(transformed_data, 1)
    /\ transformed_data' = IF returned'.kind = "list" THEN returned'.rows
                           ELSE transformed_data
    /\ step' = "transformed"
    /\ UNCHANGED <<file, parser, rows, row_index, manufacturer, result,
                   pc, priceVars, catalogVars, mapVars>>

\* ParseReturn without the except clause: the exception of the step leaves
\* parse as it is
ParseReturn_Reraise ==
    /\ step \in {"transformed", "except"}
    /\ result' = IF step = "except" THEN result ELSE returned
    /\ step' = "done"
    /\ UNCHANGED <<file, parser, rows, row_index, transformed_data, manufacturer,
                   returned, pc, priceVars, catalogVars, mapVars>>

\* the end of parse: the records, or ParserError for any exception
ParseReturn ==
    /\ step \in {"transformed", "except"}
    /\ result' = IF step = "except" \/ returned.kind = "raise"
                 THEN Raise("ParserError") ELSE returned
    /\ step' = "done"
    /\ UNCHANGED <<file, parser, rows, row_index, transformed_data, manufacturer,
                   returned, pc, priceVars, catalogVars, mapVars>>

NextParse ==
    \/ ReadFile \/ DetectHeaders \/ MapFields
    \/ MapBegin \/ Pass1 \/ Pass2 \/ Pass3 \/ Pass4 \/ Pass5 \/ MapReturn
    \/ MapFieldsReturn \/ TransformData \/ BeginRows \/ TransformRow \/ BaseReturn
    \/ FillManufacturer \/ FixExcelDates \/ ProcessRowBasedPrices
    \/ ValidatePriceFields \/ ParseReturn

SpecParse == InitParse /\ [][NextParse]_vars

(* C5: for a non-empty list of headers map_columns raises nothing when      *)
(* target fields, the required ones included, match no header, and the     *)
(* mapping it returns holds only fields matched to one of the headers; the *)
(* parse of a file none of whose required fields is mapped completes and   *)
(* returns its records.                                                    *)
C5_UnmappedRequiredFields ==
    /\ pc # "raised"
    /\ pc = "returned" =>
          \A field \in DOMAIN field_mapping : field_mapping[field] \in Range(headers)
    /\ (/\ step = "done"
        /\ parser.headers # <<>>
        /\ DOMAIN parser.field_mapping \cap Range(REQUIRED_FIELDS) = {})
       => result.kind = "list"

\* the per-row steps of transform_data on one raw row raise: _transform_row,
\* the price mining from the descriptions or validate_price_fields
RowRaises(raw_row) ==
    LET transformed_row == _transform_row(raw_row, parser.field_mapping)
    IN  \/ IsRaise(transformed_row)
        \/ IsRaise(validate_price_fields(MineRow(parser.class, transformed_row, 1)))

(* C10: when a per-row step (mapping, cleaning, price mining from the      *)
(* descriptions, price-field validation) raises for a raw row,             *)
(* transform_data still returns a list, and the list holds one record for  *)
(* every raw row whose steps do not raise.                                 *)
C10_RowFailureIsolated ==
    step = "transformed" =>
        /\ returned.kind = "list"
        /\ Len(returned.rows) =
               Cardinality({i \in 1..Len(rows) : ~RowRaises(rows[i])})

\* the records that transform_data has returned
Records == IF step \in {"transformed", "done"} /\ returned.kind = "list"
           THEN returned.rows ELSE <<>>

(* C11: no record returned by transform_data holds the generic key "MSRP", *)
(* whatever value the mapping or the mining gave it, None included.        *)
C11_NoGenericMsrp ==
    \A i \in 1..Len(Records) : "MSRP" \notin DOMAIN Records[i]

(***************************************************************************)
(* PriceUtils.validate_price_fields on its own: the loop of transform_data *)
(* over a list of one row drawn from ValidateRows.                         *)
(***************************************************************************)
\* a row holds key with the value v, or does not hold key (NoResult)
Entry(key, v) == IF v = NoResult THEN EmptyDict ELSE (key :> v) @@ EmptyDict

\* rows with and without a generic MSRP, currency fields, a text value and
\* a key that no target field has
ValidateRows ==
    { Entry("MSRP", msrp) @@ Entry("MSRP GBP", gbp) @@ Entry("MSRP EUR", eur)
      @@ Entry("Manufacturer", maker) @@ Entry("Price in pounds", other) :
        msrp \in {NoResult, None, PyFloat("10", ""), Str("12")},
        gbp \in {NoResult, None, PyFloat("5", "")},
        eur \in {NoResult, None},
        maker \in {NoResult, Str("Sony"), Str("British Gas"), Str("GBP Ltd")},
        other \in {NoResult, None, Str("n/a")} }

InitValidate ==
    /\ file = None
    /\ parser = None
    /\ step = "validate_price_fields"
    /\ rows = <<>>
    /\ row_index = 0
    /\ transformed_data \in {<<row>> : row \in ValidateRows}
    /\ manufacturer = None
    /\ returned = NoResult
    /\ result = NoResult
    /\ pc = "idle"
    /\ MapIdle
    /\ PriceIdle
    /\ CatalogIdle

NextValidate == ValidatePriceFields

SpecValidate == InitValidate /\ [][NextValidate]_vars

\* an indicator of some currency occurs, in upper or lower case, in the text
\* of a value of the row
IndicatorInValues(row) ==
    \E key \in DOMAIN row : \E c \in DOMAIN CURRENCY_INDICATORS :
        \E h \in 1..Len(CURRENCY_INDICATORS[c]) :
            Contains(Lower(Text(row[key])), Lower(CURRENCY_INDICATORS[c][h]))

\* validate_price_fields has dropped the generic MSRP of row and has given
\* it to no currency field
GenericDropped(row, out) ==
    /\ ~IsRaise(out)
    /\ "MSRP" \notin DOMAIN out
    /\ \A f \in Range(MSRP_CURRENCY_FIELDS) :
          /\ f \in DOMAIN out <=> f \in DOMAIN row
          /\ f \in DOMAIN row => out[f] = normalize_price(row[f])

DiscontinuedMapped(raw_row) ==
    /\ "Discontinued" \in DOMAIN parser.field_mapping
    /\ parser.field_mapping["Discontinued"] \in DOMAIN raw_row

(* C14: in every record returned by transform_data Discontinued is a       *)
(* boolean: for a string source value it is True exactly when the trimmed, *)
(* lower-cased value is one of yes, y, true, t, 1, discontinued, obsolete; *)
(* it is False when the field is unmapped or the source value is None.     *)
C14_DiscontinuedBoolean ==
    \A i \in 1..Len(Records) :
        /\ Len(Records) = Len(rows)
        /\ "Discontinued" \in DOMAIN Records[i]
        /\ Records[i]["Discontinued"].kind = "bool"
        /\ IF DiscontinuedMapped(rows[i])
           THEN LET source == rows[i][parser.field_mapping["Discontinued"]]
                IN  /\ source.kind = "str" =>
                          (Records[i]["Discontinued"].b <=>
                              Lower(Strip(source.s)) \in
                                  {"yes", "y", "true", "t", "1", "discontinued", "obsolete"})
                    /\ source = None => ~Records[i]["Discontinued"].b
           ELSE ~Records[i]["Discontinued"].b

C14_Witness ==
    /\ step = "done"
    /\ \E i \in 1..Len(Records) :
          /\ DiscontinuedMapped(rows[i])
          /\ rows[i][parser.field_mapping["Discontinued"]] = Str(" YES ")
          /\ Records[i]["Discontinued"] = PyBool(TRUE)
    /\ \E i \in 1..Len(Records) :
          /\ DiscontinuedMapped(rows[i])
          /\ rows[i][parser.field_mapping["Discontinued"]] = Str(PoundSign \o "10.00")
          /\ Records[i]["Discontinued"] = PyBool(FALSE)

(* C20: in every record that a parser's transform_data returns, each price *)
(* field that is present (Buy Cost, Trade Price, MSRP GBP, MSRP USD, MSRP  *)
(* EUR) holds a float or None and never a raw string, a currency MSRP      *)
(* filled from the generic MSRP included.                                  *)
C20_PriceFieldsAreFloats ==
    \A i \in 1..Len(Records) :
        \A field \in Range(price_fields) \cap DOMAIN Records[i] :
            Records[i][field].kind \in {"float", "None"}

\* the step of parse that the position belongs to: 1 read_file,
\* 2 detect_headers, 3 map_fields, 4 transform_data, 5 the except clause,
\* 6 parse has ended
ParsePhase(position) ==
    CASE position = "read_file" -> 1
      [] position = "detect_headers" -> 2
      [] position \in {"map_fields", "mapping"} -> 3
      [] position \in {"transform_data", "mapping_again", "transform_rows",
                       "transform_row", "fill_manufacturer", "fix_excel_dates",
                       "process_row_based_prices", "validate_price_fields",
                       "transformed"} -> 4
      [] position = "except" -> 5
      [] position = "done" -> 6
      [] OTHER -> 0

MinedPriceFields ==
    Range(price_fields) \cup {"MSRP"} \cup {"MSRP " \o c : c \in Range(CURRENCY_CODES)}

(* C26: the mining of prices from the Short and Long Description of a      *)
(* transformed row only fills price fields that the row lacks or holds as  *)
(* None: a price field with a non-null value of a mapped column and every  *)
(* field that is no price field are left as they were.                     *)
C26_MiningOnlyFillsMissingPrices ==
    [][step = "process_row_based_prices"
          => /\ Len(transformed_data') = Len(transformed_data)
             /\ \A i \in 1..Len(transformed_data) :
                   /\ DOMAIN transformed_data[i] \subseteq DOMAIN transformed_data'[i]
                   /\ \A field \in DOMAIN transformed_data'[i] :
                         \/ /\ field \in DOMAIN transformed_data[i]
                            /\ transformed_data'[i][field] = transformed_data[i][field]
                         \/ /\ field \in MinedPriceFields
                            /\ field \in DOMAIN transformed_data[i]
                                   => transformed_data[i][field] = None
         ]_vars

\* the description of the row names a cost of 3 and a trade price of 4: the
\* Buy Cost of the mapped column, 5.0, is kept and the Trade Price is filled
C26_Witness ==
    /\ step = "validate_price_fields"
    /\ Len(transformed_data) >= 1
    /\ {"Short Description", "Buy Cost", "Trade Price"} \subseteq DOMAIN transformed_data[1]
    /\ transformed_data[1]["Short Description"] = Str("Nut, cost 3, trade price 4")
    /\ extract_prices_from_description(Str("Nut, cost 3, trade price 4"))["Buy Cost"]
          = PyFloat("3", "")
    /\ transformed_data[1]["Buy Cost"] = PyFloat("5", "")
    /\ transformed_data[1]["Trade Price"] = PyFloat("4", "")

(***************************************************************************)
(* CatalogParser: parse_file on one file, and batch_process over the files *)
(* that os.walk visits in a directory. parse_file runs BaseParser.parse,   *)
(* the machine above, on the file.                                         *)
(***************************************************************************)
MaxFiles == 2

\* the files on disk: a CSV file with one record, a workbook whose price
\* cell is an int too large for a float, a CSV file that cannot be read, a
\* workbook without rows
CatalogFiles ==
    { [class |-> "CSVParser", filename |-> "in/catalog.csv", readable |-> TRUE,
       sheet |-> <<HeaderRow(<<"Description", "Cost">>),
                   <<Str("Widget"), Str(PoundSign \o "10.00")>> >>],
      [class |-> "ExcelParser", filename |-> "in/catalog.xlsx", readable |-> TRUE,
       sheet |-> <<HeaderRow(<<"Description", "Cost">>),
                   <<PyInt("7"), PyInt(HugeIntDigits)>> >>],
      [class |-> "CSVParser", filename |-> "in/damaged.csv", readable |-> FALSE,
       sheet |-> <<>>],
      [class |-> "ExcelParser", filename |-> "in/empty.xlsx", readable |-> TRUE,
       sheet |-> <<>>] }

\* a path as os.path.exists and FileDetector.detect_file_type see it: the
\* files above, a file of no supported type, and a path that is no file
DirEntries ==
    { [path |-> f.filename, exists |-> TRUE,
       file_type |-> IF f.class = "CSVParser" THEN "csv" ELSE "excel",
       file |-> f] : f \in CatalogFiles }
    \cup { [path |-> "in/readme.bin", exists |-> TRUE, file_type |-> "none", file |-> None],
           [path |-> "in/gone.csv", exists |-> FALSE, file_type |-> "none", file |-> None] }

\* the files os.walk yields, each path once
Listings ==
    {l \in ListsUpTo(DirEntries, MaxFiles) :
        \A i \in 1..Len(l) : \A j \in 1..Len(l) : i # j => l[i].path # l[j].path}

\* a path that is no directory, a directory whose output directory cannot be
\* made, and the directories with the listings above
Directories ==
    { [isdir |-> FALSE, output_dir_made |-> TRUE, files |-> <<>>],
      [isdir |-> TRUE, output_dir_made |-> FALSE, files |-> <<>>] }
    \cup { [isdir |-> TRUE, output_dir_made |-> TRUE, files |-> l] : l \in Listings }

\* handle_exception without its return: the exception goes on
handle_exception_Reraise(e, context) == e

\* utils/error_handler.py handle_exception
handle_exception(e, context) ==
    [success |-> FALSE, error |-> [type |-> e.exc, context |-> context]]

\* FileDetector.detect_file_type: FileError for a path that is no file and
\* for a file of no supported type
detect_file_type(entry) ==
    IF ~entry.exists THEN Raise("FileError")
    ELSE IF entry.file_type = "none" THEN Raise("FileError")
    ELSE Str(entry.file_type)

\* FileDetector.get_appropriate_parser, for the two parsers of the model
get_appropriate_parser(entry) ==
    LET file_type == detect_file_type(entry)
    IN  IF file_type.kind = "raise" THEN file_type
        ELSE IF file_type.s = "excel" THEN Str("ExcelParser")
        ELSE IF file_type.s = "csv" THEN Str("CSVParser")
        ELSE Raise("FileError")

\* the outcomes of save_to_csv: nothing is written for no records; else the
\* file is written, or os.makedirs raises OSError, or the writing fails and
\* ParserError is raised
save_to_csv(data, output_file) ==
    IF data = <<>> THEN {None}
    ELSE {None, Raise("OSError"), Raise("ParserError")}

\* parse_file from the return of parser.parse() on: what it returns
ParseFileResult(parsed_data, saved, parser_class, context) ==
    IF parsed_data.kind = "raise" THEN handle_exception(parsed_data, context)
    ELSE IF saved.kind = "raise" THEN handle_exception(saved, context)
    ELSE [success |-> TRUE,
          parsed_data |-> parsed_data.rows,
          record_count |-> Len(parsed_data.rows),
          file_type |-> Replace(parser_class, "Parser", ""),
          headers |-> IF parsed_data.rows # <<>> THEN DOMAIN parsed_data.rows[1]
                      ELSE {}]

\* os.path.join(output_dir, rel_path) with the extension .csv
OutputPath(file_path) == "out/" \o SplitExtRoot(Basename(file_path)) \o ".csv"

\* batch_process: results at the start of the walk
NewBatchResults ==
    [success |-> TRUE, total_files |-> 0, processed_files |-> 0,
     failed_files |-> 0, skipped_files |-> 0, file_results |-> <<>>]

\* the except branch of the loop body, without its entry in file_results
SkipFile_NoEntry(results, file_path, e) ==
    [results EXCEPT !.skipped_files = @ + 1]

\* the except branch of the loop body of batch_process
SkipFile(results, file_path, e) ==
    [results EXCEPT !.skipped_files = @ + 1,
                  !.file_results = Append(@, [file |-> file_path, success |-> FALSE,
                                              skipped |-> TRUE,
                                              error |-> [message |-> e.exc]])]

\* the loop body of batch_process from the return of parse_file on; an
\* exception of parse_file would go to the except branch
StoreFileResult(results, file_path, output_path, parsed) ==
    IF IsRaise(parsed) THEN SkipFile(results, file_path, parsed)
    ELSE [results EXCEPT
            !.processed_files = IF parsed.success THEN @ + 1 ELSE @,
            !.failed_files = IF parsed.success THEN @ ELSE @ + 1,
            !.file_results = Append(@, [file |-> file_path,
                                        success |-> parsed.success,
                                        output |-> IF parsed.success THEN output_path
                                                   ELSE None,
                                        error |-> DictGet(parsed, "error")])]

InitCatalog ==
    /\ \/ /\ batch = "parse_file"
          /\ directory = None
          /\ target \in {[filename |-> entry, output_file |-> output_file] :
                            entry \in DirEntries,
                            output_file \in {None, Str("out/catalog.csv")}}
          /\ step = "parse_file"
       \/ /\ batch = "batch_process"
          /\ directory \in Directories
          /\ target = None
          /\ step = "idle"
    /\ file_index = 0
    /\ batch_results = NoResult
    /\ file_result = NoResult
    /\ file = None
    /\ parser = None
    /\ rows = <<>>
    /\ row_index = 0
    /\ transformed_data = <<>>
    /\ manufacturer = None
    /\ returned = NoResult
    /\ result = NoResult
    /\ pc = "idle"
    /\ MapIdle
    /\ PriceIdle

\* parse_file returns before a parser exists
ParseFileReturns(outcome) ==
    /\ file_result' = outcome
    /\ step' = "parse_file_returned"
    /\ UNCHANGED <<file, parser, rows, row_index, transformed_data, manufacturer,
                   returned, result>>

\* parse_file up to parser.parse(): the file must exist, a parser class is
\* chosen and a parser made
ParseFile ==
    /\ step = "parse_file"
    /\ IF ~target.filename.exists
       THEN ParseFileReturns([success |-> FALSE, error |-> [message |-> "File not found"]])
       ELSE LET parser_class == get_appropriate_parser(target.filename)
            IN  IF parser_class.kind = "raise"
                THEN ParseFileReturns(handle_exception(parser_class, "Error parsing file"))
                ELSE /\ file' = target.filename.file
                     /\ parser' = NewParser(parser_class.s, target.filename.path)
                     /\ step' = "read_file"
                     /\ rows' = <<>>
                     /\ row_index' = 0
                     /\ transformed_data' = <<>>
                     /\ manufacturer' = None
                     /\ returned' = NoResult
                     /\ result' = NoResult
                     /\ UNCHANGED file_result
    /\ UNCHANGED <<pc, priceVars, mapVars, batch, directory, file_index,
                   batch_results, target>>

\* parse_file from the return of parser.parse() on: the records are saved
\* when an output file is given, and the dict is returned
ParseFileEnd ==
    /\ step = "done"
    /\ batch \in {"parse_file", "file"}
    /\ \E saved \in IF result.kind = "list" /\ target.output_file # None
                    THEN save_to_csv(result.rows, target.output_file)
                    ELSE {None} :
          file_result' = ParseFileResult(result, saved, parser.class, "Error parsing file")
    /\ step' = "parse_file_returned"
    /\ UNCHANGED <<file, parser, rows, row_index, transformed_data, manufacturer,
                   returned, result, pc, priceVars, mapVars, batch, directory,
                   file_index, batch_results, target>>

\* batch_process up to the walk
BatchBegin ==
    /\ batch = "batch_process"
    /\ IF ~directory.isdir
       THEN /\ batch_results' = [success |-> FALSE,
                                 error |-> [message |-> "Directory not found"]]
            /\ batch' = "returned"
            /\ UNCHANGED file_index
       ELSE IF ~directory.output_dir_made
       THEN /\ batch_results' = Raise("OSError")
            /\ batch' = "raised"
            /\ UNCHANGED file_index
       ELSE /\ batch_results' = NewBatchResults
            /\ batch' = "walk"
            /\ file_index' = 1
    /\ UNCHANGED <<pc, priceVars, mapVars, parseVars, directory, target, file_result>>

\* the loop body up to the call of parse_file: the type of the file is
\* detected and the directory of the output file made; an exception of either
\* skips the file
BatchDetect ==
    /\ batch = "walk"
    /\ file_index <= Len(directory.files)
    /\ LET entry == directory.files[file_index]
           file_type == detect_file_type(entry)
       IN  IF file_type.kind = "raise"
           THEN /\ batch_results' = SkipFile(batch_results, entry.path, file_type)
                /\ file_index' = file_index + 1
                /\ UNCHANGED <<batch, step, target, file_result>>
           ELSE \E made \in {None, Raise("OSError")} :
                  LET counted == [batch_results EXCEPT !.total_files = @ + 1]
                  IN  IF made.kind = "raise"
                      THEN /\ batch_results' = SkipFile(counted, entry.path, made)
                           /\ file_index' = file_index + 1
                           /\ UNCHANGED <<batch, step, target, file_result>>
                      ELSE /\ batch_results' = counted
                           /\ target' = [filename |-> entry,
                                         output_file |-> Str(OutputPath(entry.path))]
                           /\ file_result' = NoResult
                           /\ step' = "parse_file"
                           /\ batch' = "file"
                           /\ UNCHANGED file_index
    /\ UNCHANGED <<file, parser, rows, row_index, transformed_data, manufacturer,
                   returned, result, pc, priceVars, mapVars, directory>>

\* the loop body from the return of parse_file on
BatchStore ==
    /\ batch = "file"
    /\ step = "parse_file_returned"
    /\ batch_results' = StoreFileResult(batch_results, target.filename.path,
                                        target.output_file.s, file_result)
    /\ file_index' = file_index + 1
    /\ batch' = "walk"
    /\ step' = "idle"
    /\ UNCHANGED <<file, parser, rows, row_index, transformed_data, manufacturer,
                   returned, result, pc, priceVars, mapVars, directory, target,
                   file_result>>

\* the walk is over: return results
BatchReturn ==
    /\ batch = "walk"
    /\ file_index > Len(directory.files)
    /\ batch' = "returned"
    /\ UNCHANGED <<pc, priceVars, mapVars, parseVars, directory, file_index,
                   batch_results, target, file_result>>

NextCatalog ==
    \/ ParseFile \/ ParseFileEnd
    \/ BatchBegin \/ BatchDetect \/ BatchStore \/ BatchReturn
    \/ NextParse

SpecCatalog == InitCatalog /\ [][NextCatalog]_vars

C18_OneEntryPerFile ==
    batch \in {"walk", "file", "returned"} /\ directory.isdir =>
        LET visited == IF batch = "file" THEN file_index - 1
                       ELSE IF batch = "walk" THEN file_index - 1
                       ELSE Len(directory.files)
            entries == batch_results.file_results
        IN  /\ ~IsRaise(batch_results)
            /\ Len(entries) = visited
            /\ \A i \in 1..visited : entries[i].file = directory.files[i].path
            /\ batch = "returned" => batch_results.success = TRUE

\* the batch has returned after a file that was skipped and a file whose
\* parse failed, followed by nothing or by files of any kind
C18_Witness ==
    /\ batch = "returned"
    /\ directory.isdir
    /\ Len(directory.files) = MaxFiles
    /\ directory.files[1].path = "in/readme.bin"
    /\ directory.files[2].path = "in/damaged.csv"
    /\ batch_results.skipped_files = 1
    /\ batch_results.failed_files = 1
    /\ Len(batch_results.file_results) = MaxFiles

(* C30: whenever batch_process has finished a file, and in the result it   *)
(* returns, total_files = processed_files + failed_files and the length of *)
(* file_results = total_files + skipped_files: every visited file is       *)
(* counted as processed, as failed or as skipped, and as one of them only. *)
C30_CountersAddUp ==
    (batch \in {"walk", "returned"} /\ directory.isdir) =>
        /\ batch_results.total_files
              = batch_results.processed_files + batch_results.failed_files
        /\ Len(batch_results.file_results)
              = batch_results.total_files + batch_results.skipped_files

(***************************************************************************)
(* The price normaliser as a state machine: one call of normalize_price on *)
(* an argument drawn from PriceValues.                                     *)
(***************************************************************************)
MaxPriceLen == 5
PriceAlphabet == {"0", "1", ",", ".", "$"}

RECURSIVE StringsUpTo(_, _)
StringsUpTo(alphabet, n) ==
    IF n = 0 THEN {""}
    ELSE LET shorter == StringsUpTo(alphabet, n - 1)
         IN  shorter \cup {s \o c : s \in shorter, c \in alphabet}


PriceExamples ==
    {"$1,000", "1.234,56", "1,234.56", "abc", " 12,50 ", "1.2.3",
     "1,234,567", "1,234,567.89", "1.234.567,89", "GBP 9.99", "1,00000"}

PriceValues ==
    {None, Object}
    \cup {Str(s) : s \in StringsUpTo(PriceAlphabet, MaxPriceLen) \cup PriceExamples}
    \cup {PyInt(d) : d \in {"0", "5", "1000", HugeIntDigits}}
    \cup {PyFloat("12", "5")}


InitPrice ==
    /\ pc = "normalize_price"
    /\ value \in PriceValues
    /\ price = NoResult
    /\ currency_code = NoResult
    /\ row_prices = NoResult
    /\ MapIdle
    /\ ParseIdle
    /\ CatalogIdle

\* price = PriceUtils.normalize_price(value)
CallNormalizePrice ==
    /\ pc = "normalize_price"
    /\ price' = normalize_price(value)
    /\ pc' = "returned"
    /\ UNCHANGED <<value, currency_code, row_prices, mapVars, parseVars, catalogVars>>

NextPrice == CallNormalizePrice

SpecPrice == InitPrice /\ [][NextPrice]_vars

\* The cleaned text of the string argument of the call.
CleanedValue == KeepPriceChars(Strip(value.s))

\* float(text), with the ValueError caught as normalize_price catches it
FloatOrNone(text) ==
    IF FloatOfStr(text).kind = "raise" THEN None ELSE FloatOfStr(text)

(***************************************************************************)
(* C6: normalize_price("$1,000") returns 1000.0.                           *)
(***************************************************************************)
C6_DollarThousand ==
    (pc = "returned" /\ value = Str("$1,000")) => price = PyFloat("1000", "")

(***************************************************************************)
(* C7: for a price string holding both "." and ",", the separator that     *)
(* occurs last is the decimal point and every occurrence of the other one  *)
(* is removed; "1.234,56" and "1,234.56" both give 1234.56.                *)
(***************************************************************************)
C7_LaterSeparatorIsDecimal ==
    (pc = "returned" /\ value.kind = "str"
        /\ HasChar(CleanedValue, ",") /\ HasChar(CleanedValue, "."))
    => LET c == CleanedValue
           lastSep == Char(c, CHOOSE i \in 1..Len(c) :
                          /\ Char(c, i) \in {",", "."}
                          /\ \A j \in (i + 1)..Len(c) : Char(c, j) \notin {",", "."})
           other == IF lastSep = "," THEN "." ELSE ","
           text == Replace(Replace(c, other, ""), lastSep, ".")
       IN  /\ price = FloatOrNone(text)
           /\ value.s \in {"1.234,56", "1,234.56"} => price = PyFloat("1234", "56")

C7_Witness ==
    pc = "returned" /\ value = Str("1.234,56") /\ price = PyFloat("1234", "56")

(***************************************************************************)
(* C8: for a price string whose only separator is ",", the comma is the    *)
(* decimal separator when 0 to 3 digits follow the last comma, and a       *)
(* thousands separator (removed) otherwise.                                *)
(***************************************************************************)
C8_CommaOnly ==
    (pc = "returned" /\ value.kind = "str"
        /\ HasChar(CleanedValue, ",") /\ ~HasChar(CleanedValue, "."))
    => LET c == CleanedValue
           following == Len(c) - RIndex(c, ",")
       IN  price = IF following <= 3
                   THEN FloatOrNone(Replace(c, ",", "."))
                   ELSE FloatOrNone(Replace(c, ",", ""))

C8_Witness ==
    pc = "returned" /\ value = Str("1,00000") /\ price = PyFloat("100000", "")

(***************************************************************************)
(* C9: normalize_price never raises, whatever the argument; it returns     *)
(* None for None, for the empty string, for a string without digit, "."    *)
(* or ",", and for a string whose cleaned form is no number.               *)
(***************************************************************************)
C9_NeverRaises ==
    pc = "returned" =>
        /\ price.kind # "raise"
        /\ value = None => price = None
        /\ (value.kind = "str" /\ CleanedValue = "") => price = None
        /\ (value.kind = "str" /\ CleanedValue # ""
               /\ FloatOfStr(ResolveSeparators(CleanedValue)).kind = "raise")
           => price = None

(***************************************************************************)
(* C13: for a string cell of a column mapped to a price field, the value   *)
(* that the row transformer puts in the record is normalize_price of the   *)
(* cell, whatever the layout of its separators.                            *)
(***************************************************************************)
C13_TransformerNormalizes ==
    (pc = "returned" /\ value.kind = "str")
    => \A field \in Range(price_fields) :
           _transform_row(("Price" :> value) @@ EmptyDict,
                          (field :> "Price") @@ EmptyDict)[field] = price

(***************************************************************************)
(* PriceUtils.detect_currency as a state machine: one call on an argument  *)
(* drawn from CurrencyValues.                                              *)
(***************************************************************************)
MaxCurrencyLen == 3
CurrencyAlphabet == {"$", EuroSign, "u", "S", "d", "1"}
\* texts with indicators of several currencies, in upper and mixed case
CurrencyExamples ==
    {"EURO 5 $", "10 Pounds", "British " \o PoundSign, "100 cad", "12.50",
     "Canadian Dollar", EuroSign \o " or " \o PoundSign}
CurrencyValues ==
    {Str(s) : s \in StringsUpTo(CurrencyAlphabet, MaxCurrencyLen) \cup CurrencyExamples}
    \cup {None, PyInt("5"), PyFloat("1", "5"), PyBool(TRUE), Object}

InitCurrency ==
    /\ pc = "detect_currency"
    /\ value \in CurrencyValues
    /\ price = NoResult
    /\ currency_code = NoResult
    /\ row_prices = NoResult
    /\ MapIdle
    /\ ParseIdle
    /\ CatalogIdle

\* currency_code = PriceUtils.detect_currency(value)
CallDetectCurrency ==
    /\ pc = "detect_currency"
    /\ currency_code' = detect_currency(value)
    /\ pc' = "returned"
    /\ UNCHANGED <<value, price, row_prices, mapVars, parseVars, catalogVars>>

NextCurrency == CallDetectCurrency

SpecCurrency == InitCurrency /\ [][NextCurrency]_vars

\* an indicator of the currency occurs in the text, whatever the case of the
\* letters of either
IndicatorOccurs(currency, text) ==
    \E h \in 1..Len(CURRENCY_INDICATORS[currency]) :
        LET indicator == CURRENCY_INDICATORS[currency][h]
        IN  \E i \in 1..(Len(text) - Len(indicator) + 1) :
                \A j \in 1..Len(indicator) :
                    LowerChar(Char(text, i + j - 1)) = LowerChar(Char(indicator, j))

(* C19: detect_currency returns the first currency, in the order of the    *)
(* table, one of whose indicators occurs in the text whatever the case,    *)
(* and None when no indicator occurs, when the text is empty and when the  *)
(* argument is no string.                                                  *)
C19_FirstCurrencyInTableOrder ==
    (pc = "returned" /\ currency_code # NoResult) =>
        LET hits == IF value.kind = "str"
                    THEN {k \in 1..Len(CURRENCY_CODES) :
                            IndicatorOccurs(CURRENCY_CODES[k], value.s)}
                    ELSE {}
        IN  IF hits = {} THEN currency_code = None
            ELSE currency_code =
                    Str(CURRENCY_CODES[CHOOSE k \in hits : \A m \in hits : k <= m])

\* a text where an indicator of EUR comes before an indicator of USD: USD,
\* the earlier currency of the table, is returned
C19_Witness ==
    /\ pc = "returned"
    /\ value = Str("EURO 5 $")
    /\ currency_code = Str("USD")

(***************************************************************************)
(* PriceUtils.extract_prices_from_row_format as a state machine: one call  *)
(* on a text drawn from RowTexts: a price label after a lead of 0 to       *)
(* MaxLead times ten characters, followed by a number, a currency and a    *)
(* trail.                                                                  *)
(***************************************************************************)
MaxLead == 2
RECURSIVE Lead(_)
Lead(k) == IF k = 0 THEN "" ELSE "widget no " \o Lead(k - 1)
RowLabels == {"list price", "retail price", "trade price", "price"}
RowNumbers == {" 10", ": 12,50", " on request"}
RowCurrencies == {"", " GBP", " USD", " " \o EuroSign}
RowTrails == {"", ", boxed in tens of ten pieces"}
RowTexts ==
    {Str(Lead(k) \o label \o number \o indicator \o trail) :
        k \in 0..MaxLead, label \in RowLabels, number \in RowNumbers,
        indicator \in RowCurrencies, trail \in RowTrails}
    \cup {None, Str("")}

InitExtract ==
    /\ pc = "extract_prices_from_row_format"
    /\ value \in RowTexts
    /\ price = NoResult
    /\ currency_code = NoResult
    /\ row_prices = NoResult
    /\ MapIdle
    /\ ParseIdle
    /\ CatalogIdle

\* row_prices = PriceUtils.extract_prices_from_row_format(value)
CallExtractPrices ==
    /\ pc = "extract_prices_from_row_format"
    /\ row_prices' = extract_prices_from_row_format(value)
    /\ pc' = "returned"
    /\ UNCHANGED <<value, price, currency_code, mapVars, parseVars, catalogVars>>

NextExtract == CallExtractPrices

SpecExtract == InitExtract /\ [][NextExtract]_vars

\* the ends of the MSRP-style labels of the text that a number follows within
\* 50 characters: for each pattern of MSRP, the match that the loop stops at
MsrpLabelEnds(row_data) ==
    LET patterns == ROW_PRICE_PATTERNS["MSRP"]
        hits == {p \in 1..Len(patterns) :
                    MatchLoop(row_data, FindIter(Lower(row_data), patterns[p], 1), 1).found}
    IN  {MatchLoop(row_data, FindIter(Lower(row_data), patterns[p], 1), 1).start_pos :
            p \in hits}

\* the key that the price of the label ending at start_pos is due: the
\* currency found between 20 characters before and 50 characters after the
\* end of the label, the generic MSRP when there is none
DueKey(row_data, start_pos) ==
    LET window == SubSeq(row_data, Max(0, start_pos - 20) + 1,
                         Min(Len(row_data), start_pos + 50))
        currency == detect_currency(Str(window))
    IN  IF currency # None THEN "MSRP " \o currency.s ELSE "MSRP"

(* C27: a price after an MSRP-style label is stored under MSRP <currency>  *)
(* when a currency indicator stands between 20 characters before and 50    *)
(* characters after the end of the label, wherever the label stands in the *)
(* text, and under the generic MSRP only when that window holds none.      *)
C27_CurrencyWindow ==
    (pc = "returned" /\ row_prices # NoResult /\ value.kind = "str") =>
        LET due == {DueKey(value.s, start_pos) : start_pos \in MsrpLabelEnds(value.s)}
        IN  /\ due \subseteq DOMAIN row_prices
            /\ "MSRP" \in DOMAIN row_prices => "MSRP" \in due

=============================================================================
